---------------------------- MODULE Spec2Model ----------------------------
(***************************************************************************)
(* A model of ccproxy (src/ccproxy.py): the provider registry ProxyState,  *)
(* the request transformer ProxyRequest and the relay of ProxyHandler.     *)
(*                                                                         *)
(* Python dicts are TLA+ functions whose DOMAIN is the set of keys that    *)
(* are present, so d.get(k, default) is Get(d, k, default).  Python        *)
(* strings are TLA+ strings; lower(), strip(), "in", startswith(),         *)
(* str.format and the query-string codec are computed character by         *)
(* character.  An Optional value is a sequence of length 0 (None) or 1.    *)
(***************************************************************************)
EXTENDS Integers, Sequences, FiniteSets, TLC

VARIABLES
    config,             \* ProxyState._config
    initial_config,     \* ProxyState._initial_config
    state,              \* ProxyState._state
    runtime_providers,  \* ProxyState._runtime_providers
    error_counts,       \* ProxyState._error_counts
    error_threshold,    \* ProxyState._error_threshold
    file,               \* the document stored at STATE_PATH
    pc,                 \* per worker thread: position in _proxy_messages
    req,                \* per worker thread: the locals of _proxy_messages
    last,               \* history: the handler that ran last, with its outcome
    streak,             \* history: upstream answers since a counter was last 0
    xf,                 \* input and output of the last ProxyRequest build
    rd,                 \* the chunked reader of _read_body: rfile and chunks
    task,               \* the background task of _handle_refresh_and_test
    lock,               \* ProxyState._lock: 0 when free, else the thread in it
    held                \* what a caller of get_providers() keeps, and sees

vars == <<config, initial_config, state, runtime_providers, error_counts,
          error_threshold, file, pc, req, last, streak, xf, rd, task, lock,
          held>>

registry == <<config, initial_config, state, runtime_providers, error_counts,
              error_threshold, file>>

-----------------------------------------------------------------------------
(* Bounds of the model. *)

\* The error counter of a provider is not incremented past this value.
MaxErrors == 3

\* Number of worker threads that handle POST /v1/messages concurrently.
MaxWorkers == 1

Workers == 1..MaxWorkers

\* Number of requests that are in flight at the same time.
MaxRequests == 3

\* Number of chunks of a chunked request body.
MaxChunks == 2

-----------------------------------------------------------------------------
(* Python dict and str primitives. *)

EmptyDict == [k \in {} |-> ""]

Get(d, k, default) == IF k \in DOMAIN d THEN d[k] ELSE default

Put(d, k, v) == [y \in DOMAIN d \cup {k} |-> IF y = k THEN v ELSE d[y]]

MinOf(S) == CHOOSE i \in S : \A j \in S : i <= j

RECURSIVE Lower(_)
Lower(s) ==
    LET LowerChar(c) ==
            CASE c = "A" -> "a" [] c = "B" -> "b" [] c = "C" -> "c" [] c = "D" -> "d"
              [] c = "E" -> "e" [] c = "F" -> "f" [] c = "G" -> "g" [] c = "H" -> "h"
              [] c = "I" -> "i" [] c = "J" -> "j" [] c = "K" -> "k" [] c = "L" -> "l"
              [] c = "M" -> "m" [] c = "N" -> "n" [] c = "O" -> "o" [] c = "P" -> "p"
              [] c = "Q" -> "q" [] c = "R" -> "r" [] c = "S" -> "s" [] c = "T" -> "t"
              [] c = "U" -> "u" [] c = "V" -> "v" [] c = "W" -> "w" [] c = "X" -> "x"
              [] c = "Y" -> "y" [] c = "Z" -> "z" [] OTHER -> c
    IN
    IF Len(s) = 0 THEN ""
    ELSE LowerChar(SubSeq(s, 1, 1)) \o Lower(SubSeq(s, 2, Len(s)))

StartsWith(s, pre) ==
    Len(pre) <= Len(s) /\ SubSeq(s, 1, Len(pre)) = pre

\* Python's "sub in s".
Contains(s, sub) ==
    \E i \in 1..(Len(s) - Len(sub) + 1) : SubSeq(s, i, i + Len(sub) - 1) = sub

IsSpace(c) == c \in {" ", "\t", "\r", "\n"}

RECURSIVE LStrip(_)
LStrip(s) ==
    IF Len(s) > 0 /\ IsSpace(SubSeq(s, 1, 1))
    THEN LStrip(SubSeq(s, 2, Len(s))) ELSE s

RECURSIVE RStrip(_)
RStrip(s) ==
    IF Len(s) > 0 /\ IsSpace(SubSeq(s, Len(s), Len(s)))
    THEN RStrip(SubSeq(s, 1, Len(s) - 1)) ELSE s

Strip(s) == RStrip(LStrip(s))

\* Index of the first occurrence of sub in s, 0 when there is none.
Find(s, sub) ==
    LET hits == {i \in 1..(Len(s) - Len(sub) + 1) :
                    SubSeq(s, i, i + Len(sub) - 1) = sub}
    IN IF hits = {} THEN 0 ELSE MinOf(hits)

\* s.split(sep), sep a single character.
RECURSIVE Split(_, _)
Split(s, sep) ==
    LET i == Find(s, sep)
    IN IF i = 0 THEN <<s>>
       ELSE <<SubSeq(s, 1, i - 1)>> \o Split(SubSeq(s, i + 1, Len(s)), sep)

-----------------------------------------------------------------------------
(* urllib.parse, without percent-escapes: the model's keys and values hold  *)
(* no character that urlencode would escape.                                *)

\* urllib.parse.parse_qsl(q, keep_blank_values=True): a sequence of pairs.
RECURSIVE PairsOf(_)
PairsOf(fields) ==
    IF fields = <<>> THEN <<>>
    ELSE LET f == Head(fields)
             i == Find(f, "=")
             pair == IF i = 0 THEN <<f, "">>
                     ELSE <<SubSeq(f, 1, i - 1), SubSeq(f, i + 1, Len(f))>>
         IN (IF f = "" THEN <<>> ELSE <<pair>>) \o PairsOf(Tail(fields))

parse_qsl(q) == IF q = "" THEN <<>> ELSE PairsOf(Split(q, "&"))

\* urllib.parse.urlencode(pairs).
RECURSIVE urlencode(_)
urlencode(pairs) ==
    IF pairs = <<>> THEN ""
    ELSE Head(pairs)[1] \o "=" \o Head(pairs)[2]
         \o (IF Len(pairs) > 1 THEN "&" ELSE "") \o urlencode(Tail(pairs))

\* urlsplit(url): the part before the first "?" and the query after it.
UrlBase(url) ==
    LET i == Find(url, "?") IN IF i = 0 THEN url ELSE SubSeq(url, 1, i - 1)

UrlQuery(url) ==
    LET i == Find(url, "?") IN IF i = 0 THEN "" ELSE SubSeq(url, i + 1, Len(url))

\* urlunsplit of a base and a query.
UrlJoin(base, query) == IF query = "" THEN base ELSE base \o "?" \o query

\* append_token that puts the token pair before the pairs of the URL.
append_token_first(url, token, token_param) ==
    IF token = "" THEN url
    ELSE UrlJoin(UrlBase(url),
                 urlencode(<<<<token_param, token>>>> \o parse_qsl(UrlQuery(url))))

append_token(url, token, token_param) ==
    IF token = "" THEN url
    ELSE UrlJoin(UrlBase(url),
                 urlencode(parse_qsl(UrlQuery(url)) \o <<<<token_param, token>>>>))

merge_query(url, extra_query) ==
    IF extra_query = "" THEN url
    ELSE UrlJoin(UrlBase(url),
                 urlencode(parse_qsl(UrlQuery(url)) \o parse_qsl(extra_query)))

-----------------------------------------------------------------------------
(* ProxyState: the registry.  Every method below runs under self._lock and  *)
(* is one atomic step.                                                      *)

\* config.get("ERROR_THRESHOLD", 3)
DefaultErrorThreshold == 3

\* The name of a provider profile, p.get("name"); every profile of the
\* model's configurations has a name.
NameOf(p) == Get(p, "name", "")

HasProvider(provs, name) == \E i \in 1..Len(provs) : NameOf(provs[i]) = name

_init_providers(cfg) == Get(cfg, "Providers", <<>>)

\* json.dump(self._state) into STATE_PATH: the document that is stored.
save_state(st) == <<st>>

\* STATE_PATH.exists() ? json.load : {}
_load_state(fl) == IF fl = <<>> THEN EmptyDict ELSE fl[1]

get_providers(provs) == provs

\* get_selected_provider without the selection_required test.
get_selected_provider_no_flag(st, provs) ==
    LET selected == Get(st, "selected_provider", "")
        hits == {i \in 1..Len(provs) : NameOf(provs[i]) = selected}
    IN IF selected # "" /\ hits # {} THEN <<provs[MinOf(hits)]>>
       ELSE IF provs # <<>> THEN <<provs[1]>> ELSE <<>>

get_selected_provider(st, provs) ==
    IF Get(st, "selection_required", FALSE) THEN <<>>
    ELSE LET selected == Get(st, "selected_provider", "")
             hits == {i \in 1..Len(provs) : NameOf(provs[i]) = selected}
         IN IF selected # "" /\ hits # {} THEN <<provs[MinOf(hits)]>>
            ELSE IF provs # <<>> THEN <<provs[1]>> ELSE <<>>

\* set_selected_provider without the membership test.
set_selected_provider_unchecked(st, provs, name) ==
    [ok |-> TRUE, state |-> Put(st, "selected_provider", name), saved |-> TRUE]

\* set_selected_provider that stores the name and leaves the file alone.
set_selected_provider_unsaved(st, provs, name) ==
    IF HasProvider(provs, name)
    THEN [ok |-> TRUE,
          state |-> Put(Put(st, "selected_provider", name),
                        "selection_required", FALSE),
          saved |-> FALSE]
    ELSE [ok |-> FALSE, state |-> st, saved |-> FALSE]

\* The result: the value returned, the new _state, and whether save_state ran.
set_selected_provider(st, provs, name) ==
    IF HasProvider(provs, name)
    THEN LET st1 == Put(st, "selected_provider", name)
             st2 == IF Get(st1, "selection_required", FALSE)
                    THEN Put(st1, "selection_required", FALSE) ELSE st1
         IN [ok |-> TRUE, state |-> st2, saved |-> TRUE]
    ELSE [ok |-> FALSE, state |-> st, saved |-> FALSE]

\* A field update that does not stop at the matching profile.
SetField_every(provs, name, field, value) ==
    IF ~HasProvider(provs, name) THEN provs
    ELSE [i \in 1..Len(provs) |-> Put(provs[i], field, value)]

\* for p in self._runtime_providers: if p.get("name") == name: p[field] =
\* value; break
SetField(provs, name, field, value) ==
    LET hits == {i \in 1..Len(provs) : NameOf(provs[i]) = name}
    IN IF hits = {} THEN provs
       ELSE [provs EXCEPT ![MinOf(hits)] = Put(@, field, value)]

update_provider_models(provs, name, models) ==
    SetField(provs, name, "models", models)

set_test_result(provs, name, success) ==
    SetField(provs, name, "test_result", success)

\* reload_config that never re-derives the selection.
reload_config_no_fallback(src, cfg, st, provs) ==
    IF src.kind = "ok"
    THEN [raised |-> FALSE, config |-> src.doc,
          runtime_providers |-> _init_providers(src.doc), state |-> st,
          saved |-> FALSE]
    ELSE [raised |-> src.kind = "malformed", config |-> cfg,
          runtime_providers |-> provs, state |-> st, saved |-> FALSE]

\* src is what opening and parsing the configuration file yields:
\* kind "oserror" (open or read fails), "malformed" (json.load raises
\* JSONDecodeError, which "except OSError" does not catch) or "ok" with doc.
reload_config(src, cfg, st, provs) ==
    IF src.kind = "oserror"
    THEN [raised |-> FALSE, config |-> cfg, runtime_providers |-> provs,
          state |-> st, saved |-> FALSE]
    ELSE IF src.kind = "malformed"
    THEN [raised |-> TRUE, config |-> cfg, runtime_providers |-> provs,
          state |-> st, saved |-> FALSE]
    ELSE LET new == _init_providers(src.doc)
             selected == Get(st, "selected_provider", "")
         IN IF selected # "" /\ HasProvider(new, selected)
            THEN [raised |-> FALSE, config |-> src.doc,
                  runtime_providers |-> new, state |-> st, saved |-> FALSE]
            ELSE IF new # <<>>
            THEN [raised |-> FALSE, config |-> src.doc,
                  runtime_providers |-> new,
                  state |-> Put(st, "selected_provider", NameOf(new[1])),
                  saved |-> TRUE]
            ELSE [raised |-> FALSE, config |-> src.doc,
                  runtime_providers |-> new, state |-> st, saved |-> FALSE]

\* reset_config that re-reads the providers of the current configuration.
reset_config_from_current(initial, st) ==
    [config |-> config,
     runtime_providers |-> _init_providers(config),
     state |-> Put(Put(Put(st, "selected_provider", ""),
                       "selection_required", TRUE),
                   "global_override", EmptyDict),
     saved |-> TRUE]

reset_config(initial, st) ==
    [config |-> initial,
     runtime_providers |-> _init_providers(initial),
     state |-> Put(Put(Put(st, "selected_provider", ""),
                       "selection_required", TRUE),
                   "global_override", EmptyDict),
     saved |-> TRUE]

get_provider_override(st, name) == Get(st, "global_override", EmptyDict)

set_provider_override(st, name, override) ==
    Put(st, "global_override", override)

get_config(cfg, key, default) == Get(cfg, key, default)

get_header_overrides(cfg) == Get(cfg, "HeaderOverrides", EmptyDict)

\* The result: the new counters and the value returned.
\* increment_error_count that returns the new count and does not store it.
increment_error_count_lost(counts, provider_name) ==
    [counts |-> counts, count |-> Get(counts, provider_name, 0) + 1]

increment_error_count(counts, provider_name) ==
    LET n == Get(counts, provider_name, 0) + 1
    IN [counts |-> Put(counts, provider_name, n), count |-> n]

reset_error_count(counts, provider_name) == Put(counts, provider_name, 0)

get_error_threshold(threshold) == threshold

-----------------------------------------------------------------------------
(* ProxyRequest: the request transformer. *)

HOP_HEADERS ==
    {"connection", "keep-alive", "proxy-authenticate", "proxy-authorization",
     "te", "trailers", "transfer-encoding", "upgrade", "host",
     "content-length", "accept-encoding"}

AUTH_HEADERS == {"authorization", "x-api-key", "anthropic-auth-token"}

browser_headers == {"http-referer", "referer", "x-title", "origin", "priority"}

\* Python's "a or b" on two strings.
OrElse(a, b) == IF a # "" THEN a ELSE b

\* The dict d without the keys in dropped.
Without(d, dropped) == [k \in DOMAIN d \ dropped |-> d[k]]

\* The keys of d whose lowercased name is in lower_names.
KeysIn(d, lower_names) == {k \in DOMAIN d : Lower(k) \in lower_names}

\* The keys of d whose lowercased name starts with prefix.
KeysWithPrefix(d, prefix) == {k \in DOMAIN d : StartsWith(Lower(k), prefix)}

\* s.replace(pat, rep)
RECURSIVE Replace(_, _, _)
Replace(s, pat, rep) ==
    LET i == Find(s, pat)
    IN IF i = 0 THEN s
       ELSE SubSeq(s, 1, i - 1) \o rep
            \o Replace(SubSeq(s, i + Len(pat), Len(s)), pat, rep)

\* header_format.format(token=...): each "{token}" field is replaced; any
\* other replacement field raises (KeyError, IndexError or ValueError).
FormatRaises(header_format) ==
    LET rest == Replace(header_format, "{token}", "")
    IN Contains(rest, "{") \/ Contains(rest, "}")

Format(header_format, token) == Replace(header_format, "{token}", token)

provider_token(provider) ==
    OrElse(Get(provider, "token", ""), Get(provider, "api_key", ""))

client_apikey(cfg) == get_config(cfg, "APIKEY", "")

token_in(provider, override) ==
    Lower(OrElse(Get(override, "token_in", ""), Get(provider, "token_in", "")))

\* The pass-through replacement that substitutes only the key's substring.
RECURSIVE ReplaceKeyed_substring(_, _, _)
ReplaceKeyed_substring(pairs, apikey, token) ==
    IF pairs = <<>> THEN <<>>
    ELSE LET k == Head(pairs)[1]
             v == Head(pairs)[2]
         IN <<IF apikey # "" /\ Contains(v, apikey)
              THEN <<k, Replace(v, apikey, token)>>
              ELSE <<k, v>>>>
            \o ReplaceKeyed_substring(Tail(pairs), apikey, token)

\* The (key, value) pairs of the client's query, each value that contains
\* the client API key replaced by the provider token.
RECURSIVE ReplaceKeyed(_, _, _)
ReplaceKeyed(pairs, apikey, token) ==
    IF pairs = <<>> THEN <<>>
    ELSE LET k == Head(pairs)[1]
             v == Head(pairs)[2]
         IN <<IF apikey # "" /\ Contains(v, apikey) THEN <<k, token>>
              ELSE <<k, v>>>> \o ReplaceKeyed(Tail(pairs), apikey, token)

build_url(provider, override, client_query, cfg) ==
    LET IsAuthParam(k) == Lower(k) \in {"token", "key", "api_key", "apikey"}
    IN
    LET api_base_url == Get(provider, "api_base_url", "")
        query_params == parse_qsl(client_query)
    IN IF token_in(provider, override) = ""
       THEN merge_query(api_base_url,
                urlencode(ReplaceKeyed(query_params, client_apikey(cfg),
                                       provider_token(provider))))
       ELSE LET filtered == SelectSeq(query_params,
                                LAMBDA kv : ~IsAuthParam(kv[1]))
                url1 == merge_query(api_base_url, urlencode(filtered))
                url2 == merge_query(url1, Get(override, "query_params", ""))
                token_param ==
                    OrElse(Get(override, "token_param", ""),
                        OrElse(Get(provider, "token_param", ""),
                               get_config(cfg, "TOKEN_PARAM", "token")))
            IN IF token_in(provider, override) \in {"query", "both"}
               THEN append_token(url2, provider_token(provider), token_param)
               ELSE url2

\* The headers before the header override is applied.
BaseHeaders(provider, override, client_headers, cfg) ==
    IF token_in(provider, override) = ""
    THEN LET kept == Without(client_headers,
                             KeysIn(client_headers, HOP_HEADERS))
         IN [k \in DOMAIN kept |->
                IF client_apikey(cfg) # ""
                   /\ Contains(kept[k], client_apikey(cfg))
                THEN provider_token(provider) ELSE kept[k]]
    ELSE LET kept == Without(client_headers,
                        KeysIn(client_headers, HOP_HEADERS \cup AUTH_HEADERS))
             header_name ==
                 OrElse(Get(override, "token_header", ""),
                        Get(provider, "token_header", "Authorization"))
             header_format ==
                 OrElse(Get(override, "token_header_format", ""),
                        Get(provider, "token_header_format", "Bearer {token}"))
         IN IF token_in(provider, override) \in {"header", "both"}
            THEN Put(kept, header_name,
                     Format(header_format, provider_token(provider)))
            ELSE kept

\* Whether build_headers raises: the format template has an unknown field.
build_headers_raises(provider, override) ==
    /\ token_in(provider, override) \in {"header", "both"}
    /\ FormatRaises(OrElse(Get(override, "token_header_format", ""),
                      Get(provider, "token_header_format", "Bearer {token}")))

build_headers(provider, override, client_headers, cfg) ==
    \* dict.update
    LET Update(d, e) ==
            [k \in DOMAIN d \cup DOMAIN e |-> IF k \in DOMAIN e THEN e[k] ELSE d[k]]
    IN
    LET headers == BaseHeaders(provider, override, client_headers, cfg)
        header_override ==
            OrElse(Get(override, "header_override", ""),
                   Get(provider, "header_override", ""))
        override_headers ==
            Get(get_header_overrides(cfg), header_override, EmptyDict)
        override_keys_lower == {Lower(k) : k \in DOMAIN override_headers}
    IN IF header_override # "" /\ DOMAIN override_headers # {}
       THEN LET h1 == Without(headers, KeysIn(headers, override_keys_lower))
                h2 == Without(h1, KeysIn(h1, browser_headers)
                                  \cup KeysWithPrefix(h1, "sec-ch-")
                                  \cup KeysWithPrefix(h1, "sec-fetch-"))
            IN Update(h2, override_headers)
       ELSE headers

-----------------------------------------------------------------------------
(* ProxyRequest.build_body.  A JSON object is a sequence of <<name, value>> *)
(* pairs in document order, each value kept as its JSON text; the codec     *)
(* reads objects whose values hold no "," and no ":".                       *)

HasField(fields, name) == \E i \in 1..Len(fields) : fields[i][1] = name

FieldValue(fields, name) ==
    fields[CHOOSE i \in 1..Len(fields) : fields[i][1] = name][2]

RECURSIVE Members(_)
Members(texts) ==
    \* One "name": value member of an object, <<>> when it is not one.
    LET Member(text) ==
            LET i == Find(text, ":")
                k == IF i = 0 THEN "" ELSE Strip(SubSeq(text, 1, i - 1))
                v == IF i = 0 THEN "" ELSE Strip(SubSeq(text, i + 1, Len(text)))
            IN IF Len(k) >= 2 /\ SubSeq(k, 1, 1) = "\"" /\ SubSeq(k, Len(k), Len(k)) = "\""
                  /\ v # ""
               THEN <<<<SubSeq(k, 2, Len(k) - 1), v>>>>
               ELSE <<>>
    IN
    IF texts = <<>> THEN <<>>
    ELSE Member(Head(texts)) \o Members(Tail(texts))

\* json.loads(body): the kind of the value, and the members of an object.
\* "invalid" stands for json.JSONDecodeError.
json_loads(body) ==
    LET t == Strip(body)
        c == IF t = "" THEN "" ELSE SubSeq(t, 1, 1)
        inner == Strip(SubSeq(t, 2, Len(t) - 1))
        texts == IF inner = "" THEN <<>> ELSE Split(inner, ",")
    IN IF c = "{"
       THEN IF Len(t) >= 2 /\ SubSeq(t, Len(t), Len(t)) = "}"
               /\ Len(Members(texts)) = Len(texts)
            THEN [kind |-> "object", fields |-> Members(texts)]
            ELSE [kind |-> "invalid", fields |-> <<>>]
       ELSE IF c = "[" /\ SubSeq(t, Len(t), Len(t)) = "]"
       THEN [kind |-> "list", fields |-> <<>>]
       ELSE IF c = "\"" /\ Len(t) >= 2 /\ SubSeq(t, Len(t), Len(t)) = "\""
       THEN [kind |-> "string", fields |-> <<>>]
       ELSE IF c \in {"0", "1", "2", "3", "4", "5", "6", "7", "8", "9"}
       THEN [kind |-> "number", fields |-> <<>>]
       ELSE IF t = "null"
       THEN [kind |-> "null", fields |-> <<>>]
       ELSE [kind |-> "invalid", fields |-> <<>>]

\* json.dumps(ordered, separators=(',', ':'))
RECURSIVE DumpMembers(_)
DumpMembers(fields) ==
    IF fields = <<>> THEN ""
    ELSE "\"" \o Head(fields)[1] \o "\":" \o Head(fields)[2]
         \o (IF Len(fields) > 1 THEN "," ELSE "") \o DumpMembers(Tail(fields))

json_dumps(fields) == "{" \o DumpMembers(fields) \o "}"

get_request_overrides(cfg) == Get(cfg, "RequestOverrides", EmptyDict)

\* The injection map build_body settles on, <<>> when there is none: the
\* named set of the override, else the override's inline map.
inject_fields(override, cfg) ==
    LET override_name == Get(override, "request_override", "")
        named == IF override_name = "" THEN <<>>
                 ELSE Get(get_request_overrides(cfg), override_name, <<>>)
    IN IF named # <<>> THEN named ELSE Get(override, "request_inject", <<>>)

\* build_body that lets the injection map win over the original's field.
Ordered_inject_wins(request_data, inject) ==
    LET own(name) == IF HasField(request_data, name)
                     THEN <<<<name, FieldValue(request_data, name)>>>>
                     ELSE <<>>
        filled(name) == IF HasField(inject, name)
                        THEN <<<<name, FieldValue(inject, name)>>>>
                        ELSE own(name)
        first == own("model") \o own("messages") \o filled("system")
                 \o filled("tools") \o filled("metadata")
    IN first \o SelectSeq(request_data, LAMBDA kv : ~HasField(first, kv[1]))

\* The dict `ordered` that build_body fills from the parsed object.
Ordered(request_data, inject) ==
    LET own(name) == IF HasField(request_data, name)
                     THEN <<<<name, FieldValue(request_data, name)>>>>
                     ELSE <<>>
        filled(name) == IF HasField(inject, name)
                           /\ ~HasField(request_data, name)
                        THEN <<<<name, FieldValue(inject, name)>>>>
                        ELSE own(name)
        first == own("model") \o own("messages") \o filled("system")
                 \o filled("tools") \o filled("metadata")
    IN first \o SelectSeq(request_data, LAMBDA kv : ~HasField(first, kv[1]))

\* build_body that re-serializes every body it can parse.
build_body_always_dumps(override, cfg, client_body) ==
    LET data == json_loads(client_body)
    IN IF data.kind = "object"
       THEN json_dumps(Ordered(data.fields, inject_fields(override, cfg)))
       ELSE client_body

\* The bytes sent upstream.  Every exception of the try block (a body that
\* is not JSON, or JSON that is not an object) leaves the client's bytes.
build_body(override, cfg, client_body) ==
    LET inject == inject_fields(override, cfg)
        data == json_loads(client_body)
    IN IF inject # <<>> /\ data.kind = "object"
       THEN json_dumps(Ordered(data.fields, inject))
       ELSE client_body

-----------------------------------------------------------------------------
(* ProxyHandler: credential check. *)

\* header_map.get(lname, "") with header_map = {k.lower(): v}
HeaderLookup(headers, lname) ==
    LET ks == {k \in DOMAIN headers : Lower(k) = lname}
    IN IF ks = {} THEN "" ELSE headers[CHOOSE k \in ks : TRUE]

\* parse_qs(query)[key][0], "" when the key has no non-blank value.
QueryFirst(query, key) ==
    LET vals == SelectSeq(parse_qsl(query),
                          LAMBDA kv : kv[1] = key /\ kv[2] # "")
    IN IF vals = <<>> THEN "" ELSE vals[1][2]

_extract_client_token(headers, query) ==
    LET xkey == HeaderLookup(headers, "x-api-key")
        auth == HeaderLookup(headers, "authorization")
        aat == HeaderLookup(headers, "anthropic-auth-token")
    IN IF xkey # "" THEN Strip(xkey)
       ELSE IF StartsWith(Lower(auth), "bearer ")
       THEN Strip(SubSeq(auth, 8, Len(auth)))
       ELSE IF aat # "" THEN Strip(aat)
       ELSE IF QueryFirst(query, "token") # ""
       THEN Strip(QueryFirst(query, "token"))
       ELSE IF QueryFirst(query, "key") # ""
       THEN Strip(QueryFirst(query, "key"))
       ELSE IF QueryFirst(query, "api_key") # ""
       THEN Strip(QueryFirst(query, "api_key"))
       ELSE ""

\* _is_authorized that accepts every request.
_is_authorized_always(cfg, headers, query) == TRUE

_is_authorized(cfg, headers, query) ==
    LET expected == get_config(cfg, "APIKEY", "")
    IN expected = "" \/ _extract_client_token(headers, query) = expected

\* base64.b64decode(text).decode("utf-8") for the credentials that the
\* model's requests carry: <<the decoded text>>; <<>> where the decoding
\* raises.
b64decode(text) ==
    IF text = "dTpja2V5" THEN <<"u:ckey">>
    ELSE IF text = "Y2tleTp1" THEN <<"ckey:u">>
    ELSE <<>>

\* _ui_authorized that compares the key with the user name.
_ui_authorized_username(cfg, headers, query) ==
    LET expected == get_config(cfg, "APIKEY", "")
        auth == HeaderLookup(headers, "authorization")
        decoded == b64decode(SubSeq(auth, 7, Len(auth)))
    IN \/ expected = ""
       \/ _extract_client_token(headers, query) = expected
       \/ /\ StartsWith(auth, "Basic ")
          /\ decoded # <<>>
          /\ Find(decoded[1], ":") > 0
          /\ SubSeq(decoded[1], 1, Find(decoded[1], ":") - 1) = expected

\* The verdict of _ui_authorized; FALSE is the 401 response with the
\* WWW-Authenticate header.  decoded.split(":", 1) raises when the text has
\* no colon, and the except clause leads to the 401.
_ui_authorized(cfg, headers, query) ==
    LET expected == get_config(cfg, "APIKEY", "")
        auth == HeaderLookup(headers, "authorization")
        decoded == b64decode(SubSeq(auth, 7, Len(auth)))
    IN \/ expected = ""
       \/ _extract_client_token(headers, query) = expected
       \/ /\ StartsWith(auth, "Basic ")
          /\ decoded # <<>>
          /\ Find(decoded[1], ":") > 0
          /\ SubSeq(decoded[1], Find(decoded[1], ":") + 1, Len(decoded[1]))
                 = expected

-----------------------------------------------------------------------------
(* The configurations, stored documents and requests the model draws from. *)

ProvA ==
    [name |-> "A", api_base_url |-> "https://a.test/v1/messages",
     token |-> "tok"]

\* A profile without api_base_url.
ProvB == [name |-> "B", token |-> "tokB"]

\* A profile without api_base_url whose header template names a field that
\* str.format is not given.
ProvB2 ==
    [name |-> "B", api_key |-> "keyB", token_in |-> "header",
     token_header_format |-> "Bearer {key}"]

UserAgentSet == "User-Agent" :> "cli/1.0"

Cfg1 ==
    [Providers |-> <<ProvA, ProvB>>, APIKEY |-> "ckey",
     HeaderOverrides |-> [ua |-> UserAgentSet]]

Cfg2 == [Providers |-> <<ProvB2, ProvA>>, ERROR_THRESHOLD |-> 2]

Cfg3 == [APIKEY |-> "ckey", ERROR_THRESHOLD |-> 1]

Cfg4 == [Providers |-> <<ProvB2>>, APIKEY |-> "ckey"]

OvHeader == [token_in |-> "header"]

OvQuery == [token_in |-> "query", token_param |-> "key"]

ProviderNames == {"A", "B"}

ModelLists == {<<"m1">>}

UpstreamStatuses == {200, 201, 204, 500}

ClientRequests ==
    {[headers |-> ("x-api-key" :> "ckey") @@ ("Host" :> "proxy"),
      query |-> ""],
     [headers |-> ("Authorization" :> "Bearer wrong"), query |-> "foo=1"],
     [headers |-> ("Authorization" :> "Bearer ckey"), query |-> "foo=1"]}

-----------------------------------------------------------------------------
(* The state machine. *)

Done(op, input, ret, code, up) ==
    [op |-> op, input |-> input, ret |-> ret, code |-> code, up |-> up]

NoBuild ==
    [client |-> [headers |-> EmptyDict, query |-> ""], provider |-> <<>>,
     override |-> EmptyDict, url |-> "", headers |-> EmptyDict,
     client_body |-> "", body |-> "", built |-> FALSE]

NoStreak == [n |-> 0, clean |-> TRUE]

\* No chunked body is being read.  `sent` is history: the payloads of the
\* whole chunks that the client wrote before the end of its body.
NoReader ==
    [pc |-> "idle", rfile |-> "", chunks |-> "", body |-> "", sent |-> ""]

\* No refresh-and-test task is running.  `before` and `disturbed` are
\* history: what selected() and selection_required were when the task
\* started, and whether a select, reload or reset ran since.  `probed` is
\* history of refresh_all_models: the positions of its list that
\* fetch_models was called for.
NoTask ==
    [pc |-> "idle", providers |-> <<>>, original_selected |-> <<>>,
     i |-> 0, models |-> <<>>,
     before |-> [selected |-> <<>>, required |-> FALSE],
     disturbed |-> FALSE, probed |-> {}]

\* Nothing is held.  `list` is the list that get_providers() returned, as
\* its holder sees it now: a new list of the profile objects the registry
\* had; `at` is the position in it of the object that
\* get_selected_provider() returned (0: None).  `live` says whether the
\* registry still works on these objects; `was` is history: the two results
\* at the time of the calls.
NoHold ==
    [list |-> <<>>, at |-> 0, live |-> FALSE,
     was |-> [list |-> <<>>, selected |-> <<>>]]

\* p[field] = value on a registry profile, seen through the held objects.
Seen(h, name, field, value) ==
    IF h.live THEN [h EXCEPT !.list = SetField(@, name, field, value)] ELSE h

\* A select, reload or reset that runs while the task does.
Disturb(t) == IF t.pc = "idle" THEN t ELSE [t EXCEPT !.disturbed = TRUE]

\* ProxyState.__init__, called by main() with the parsed configuration.
Init ==
    \* What STATE_PATH holds when the process starts: no file, or a document an
    \* earlier run of the process wrote.
    LET StartFiles ==
            {<<>>,
             <<[selected_provider |-> "B"]>>,
             <<[selected_provider |-> "Z", global_override |-> OvHeader]>>,
             <<[selected_provider |-> "", selection_required |-> TRUE,
                global_override |-> EmptyDict]>>}
    IN
    LET StartConfigs == {Cfg1, Cfg2}
    IN
    /\ config \in StartConfigs
    /\ initial_config = config
    /\ file \in StartFiles
    /\ state = _load_state(file)
    /\ runtime_providers = _init_providers(config)
    /\ error_counts = EmptyDict
    /\ error_threshold = Get(config, "ERROR_THRESHOLD", DefaultErrorThreshold)
    /\ pc = [w \in Workers |-> "idle"]
    /\ req = [w \in Workers |-> [provider_name |-> "", url |-> ""]]
    /\ last = Done("start", EmptyDict, "", 0, 0)
    /\ streak = EmptyDict
    /\ xf = NoBuild
    /\ rd = NoReader
    /\ task = NoTask
    /\ lock = 0
    /\ held = NoHold

\* POST /api/select: _handle_select
HandleSelect(name) ==
    LET r == set_selected_provider(state, runtime_providers, name)
    IN /\ state' = r.state
       /\ file' = IF r.saved THEN save_state(r.state) ELSE file
       /\ last' = Done("select", [name |-> name],
                       IF r.ok THEN "true" ELSE "false",
                       IF r.ok THEN 200 ELSE 400, 0)
       /\ UNCHANGED <<config, initial_config, runtime_providers, error_counts,
                      error_threshold, pc, req, streak, xf, rd, lock, held>>
       /\ task' = Disturb(task)

\* POST /api/reload: _handle_reload.  An exception that leaves reload_config
\* leaves the handler too, and no response is written.
HandleReload(src) ==
    LET r == reload_config(src, config, state, runtime_providers)
    IN /\ config' = r.config
       /\ runtime_providers' = r.runtime_providers
       /\ state' = r.state
       /\ file' = IF r.saved THEN save_state(r.state) ELSE file
       /\ last' = Done("reload", src, IF r.raised THEN "raise" ELSE "return",
                       IF r.raised THEN 0 ELSE 200, 0)
       /\ UNCHANGED <<initial_config, error_counts, error_threshold, pc, req,
                      streak, xf, rd, lock>>
       /\ held' = IF src.kind = "ok" THEN [held EXCEPT !.live = FALSE]
                  ELSE held
       /\ task' = Disturb(task)

\* POST /api/reset: _handle_reset
HandleReset ==
    LET r == reset_config(initial_config, state)
    IN /\ config' = r.config
       /\ runtime_providers' = r.runtime_providers
       /\ state' = r.state
       /\ file' = IF r.saved THEN save_state(r.state) ELSE file
       /\ last' = Done("reset", EmptyDict, "return", 200, 0)
       /\ UNCHANGED <<initial_config, error_counts, error_threshold, pc, req,
                      streak, xf, rd, lock>>
       /\ held' = [held EXCEPT !.live = FALSE]
       /\ task' = Disturb(task)

\* POST /api/provider-auth: _handle_provider_auth
HandleProviderAuth(name, override) ==
    /\ IF name = ""
       THEN /\ last' = Done("provider-auth", [name |-> name], "return", 400, 0)
            /\ UNCHANGED <<state, file>>
       ELSE /\ state' = set_provider_override(state, name, override)
            /\ file' = save_state(state')
            /\ last' = Done("provider-auth", [name |-> name], "return", 200, 0)
    /\ UNCHANGED <<config, initial_config, runtime_providers, error_counts,
                   error_threshold, pc, req, streak, xf, rd, task,
                   lock, held>>

\* state.update_provider_models, as called by refresh_all_models,
\* _handle_refresh_models and the refresh-and-test task after a discovery.
UpdateModels(name, models) ==
    /\ runtime_providers' =
           update_provider_models(runtime_providers, name, models)
    /\ held' = Seen(held, name, "models", models)
    /\ last' = Done("updateModels", [name |-> name], "return", 0, 0)
    /\ UNCHANGED <<config, initial_config, state, error_counts,
                   error_threshold, file, pc, req, streak, xf, rd, task,
                   lock>>

\* state.set_test_result, as called by _handle_test_provider and the
\* refresh-and-test task.
SetTestResult(name, success) ==
    /\ runtime_providers' = set_test_result(runtime_providers, name, success)
    /\ held' = Seen(held, name, "test_result", success)
    /\ last' = Done("setTestResult", [name |-> name], "return", 0, 0)
    /\ UNCHANGED <<config, initial_config, state, error_counts,
                   error_threshold, file, pc, req, streak, xf, rd, task,
                   lock>>

\* What _proxy_messages does up to the moment requests.post is waiting for
\* the upstream: the result names the response written (code 0: none yet),
\* and whether the request is now in flight.
Dispatch(st, provs, cfg, r) ==
    \* requests.post refuses a URL without a scheme (MissingSchema, a
    \* RequestException) before anything is sent.
    LET HasScheme(url) == StartsWith(url, "http://") \/ StartsWith(url, "https://")
    IN
    LET sel == get_selected_provider(st, provs)
        provider == sel[1]
        override == get_provider_override(st, NameOf(provider))
        url == build_url(provider, override, r.query, cfg)
        headers == build_headers(provider, override, r.headers, cfg)
        none == [NoBuild EXCEPT !.client = r]
        built == [client |-> r, provider |-> sel, override |-> override,
                  url |-> url, headers |-> headers, client_body |-> "",
                  body |-> "", built |-> TRUE]
    IN IF sel = <<>>
       THEN [code |-> 503, ret |-> "return", sent |-> FALSE, xf |-> none]
       ELSE IF ~_is_authorized(cfg, r.headers, r.query)
       THEN [code |-> 401, ret |-> "return", sent |-> FALSE,
             xf |-> [none EXCEPT !.provider = sel]]
       ELSE IF build_headers_raises(provider, override)
       THEN [code |-> 0, ret |-> "raise", sent |-> FALSE,
             xf |-> [none EXCEPT !.provider = sel, !.override = override]]
       ELSE IF url = "" \/ ~HasScheme(url)
       THEN [code |-> 502, ret |-> "return", sent |-> FALSE, xf |-> built]
       ELSE [code |-> 0, ret |-> "sent", sent |-> TRUE, xf |-> built]

\* POST /v1/messages: _proxy_messages up to requests.post
ProxyDispatch(w, r) ==
    /\ pc[w] = "idle"
    /\ \E d \in {Dispatch(state, runtime_providers, config, r)} :
       LET name == IF d.xf.provider = <<>> THEN ""
                   ELSE NameOf(d.xf.provider[1])
       IN /\ xf' = d.xf
          /\ pc' = [pc EXCEPT ![w] = IF d.sent THEN "sent" ELSE "idle"]
          /\ req' = [req EXCEPT ![w] =
                        IF d.sent THEN [provider_name |-> name, url |-> d.xf.url]
                        ELSE @]
          /\ last' = Done(IF d.sent THEN "dispatch" ELSE "proxy",
                          [provider |-> name, client |-> r], d.ret, d.code, 0)
    /\ UNCHANGED <<registry, streak, rd, task, lock, held>>

\* requests.post raises a RequestException: no upstream response arrives.
UpstreamFail(w) ==
    /\ pc[w] = "sent"
    /\ pc' = [pc EXCEPT ![w] = "idle"]
    /\ last' = Done("proxy", [provider |-> req[w].provider_name],
                    "return", 502, 0)
    /\ UNCHANGED <<registry, req, streak, xf, rd, task, lock, held>>

\* _stream_response that drops while the count is <= the threshold.
stream_response_off_by_one(counts, threshold, provider_name, status_code) ==
    IF status_code # 200
    THEN LET inc == increment_error_count(counts, provider_name)
         IN IF inc.count <= get_error_threshold(threshold)
            THEN [counts |-> inc.counts, code |-> 0, count |-> inc.count]
            ELSE [counts |-> inc.counts, code |-> status_code,
                  count |-> inc.count]
    ELSE [counts |-> reset_error_count(counts, provider_name),
          code |-> status_code, count |-> 0]

\* _stream_response in a handler that has already counted the error.
stream_response_counts_twice(counts, threshold, provider_name, status_code) ==
    IF status_code # 200
    THEN LET once == increment_error_count(counts, provider_name)
             inc == increment_error_count(once.counts, provider_name)
         IN IF inc.count < get_error_threshold(threshold)
            THEN [counts |-> inc.counts, code |-> 0, count |-> inc.count]
            ELSE [counts |-> inc.counts, code |-> status_code,
                  count |-> inc.count]
    ELSE [counts |-> reset_error_count(counts, provider_name),
          code |-> status_code, count |-> 0]

\* The decision of _stream_response on an upstream status: the new
\* counters, and the status written to the client (0: nothing is written).
stream_response(counts, threshold, provider_name, status_code) ==
    IF status_code # 200
    THEN LET inc == increment_error_count(counts, provider_name)
         IN IF inc.count < get_error_threshold(threshold)
            THEN [counts |-> inc.counts, code |-> 0, count |-> inc.count]
            ELSE [counts |-> inc.counts, code |-> status_code,
                  count |-> inc.count]
    ELSE [counts |-> reset_error_count(counts, provider_name),
          code |-> status_code, count |-> 0]

\* A handler that counts the answer under the provider selected when the
\* answer arrives.
current_provider_name(captured, st, provs) ==
    LET sel == get_selected_provider(st, provs)
    IN IF sel = <<>> THEN "" ELSE NameOf(sel[1])

\* The provider_name that _proxy_messages hands to _stream_response: the
\* local it set from the provider it read at dispatch.
captured_provider_name(captured, st, provs) == captured

\* resp.headers of the upstream's answer: an event stream for a 200, a JSON
\* document otherwise.
UpstreamHeaders(status_code) ==
    IF status_code = 200
    THEN ("Content-Type" :> "text/event-stream")
             @@ ("Transfer-Encoding" :> "chunked")
             @@ ("Connection" :> "keep-alive")
    ELSE ("content-type" :> "application/json")
             @@ ("Content-Length" :> "17") @@ ("Retry-After" :> "1")

\* The upstream answers with a status: _stream_response.  `streak` counts
\* the answers since the last one that called reset_error_count.  `whole`
\* says whether the loop over resp.iter_content wrote the whole body or
\* ended in one of its except clauses (the upstream's stream broke, or the
\* client had gone) after the status and the headers were written.
Relay(w, status_code, whole) ==
    /\ pc[w] = "sent"
    /\ status_code # 200
           => Get(error_counts, req[w].provider_name, 0) < MaxErrors
    /\ LET name == captured_provider_name(req[w].provider_name, state,
                                          runtime_providers)
           r == stream_response(error_counts, error_threshold, name,
                                status_code)
           old == Get(streak, name, NoStreak)
       IN /\ error_counts' = r.counts
          /\ streak' = Put(streak, name,
                IF status_code = 200 THEN NoStreak
                ELSE [n |-> old.n + 1,
                      clean |-> old.clean /\ status_code \notin 200..299])
          /\ ~whole => r.code # 0
          /\ last' = Done("proxy",
                          [provider |-> name, count |-> r.count,
                           headers |->
                               IF r.code = 0 THEN EmptyDict
                               ELSE Without(UpstreamHeaders(status_code),
                                            KeysIn(UpstreamHeaders(status_code),
                                                   HOP_HEADERS)),
                           body |-> IF r.code = 0 THEN "none"
                                    ELSE IF whole THEN "whole" ELSE "cut"],
                          IF r.code = 0 THEN "dropped" ELSE "relayed",
                          r.code, status_code)
    /\ pc' = [pc EXCEPT ![w] = "idle"]
    /\ UNCHANGED <<config, initial_config, state, runtime_providers,
                   error_threshold, file, req, xf, rd, task, lock, held>>

\* The answer is streamed to its end.
UpstreamAnswer(w, status_code) == Relay(w, status_code, TRUE)

\* The streaming loop ends early.
StreamBreak(w, status_code) == Relay(w, status_code, FALSE)

\* A thread calls get_providers() and get_selected_provider() and keeps
\* what they return, as the handlers and the discovery routines do.
Hold ==
    /\ LET list == get_providers(runtime_providers)
           selected == get_selected_provider(state, runtime_providers)
       IN held' = [list |-> list,
                   at |-> IF selected = <<>> THEN 0
                          ELSE MinOf({i \in 1..Len(list) :
                                         list[i] = selected[1]}),
                   live |-> TRUE,
                   was |-> [list |-> list, selected |-> selected]]
    /\ last' = Done("hold", EmptyDict, "return", 0, 0)
    /\ UNCHANGED <<registry, pc, req, streak, xf, rd, task, lock>>

\* The control-plane handlers and the registry writes of the discovery and
\* test routines.
NextRegistry ==
    LET Overrides == {OvHeader}
    IN
    \* A name no configuration has, and the empty name.
    LET SelectNames == ProviderNames \cup {"Z", ""}
    IN
    LET ReloadSources ==
            LET ConfigDocs == {Cfg1, Cfg2, Cfg3, Cfg4}
            IN
            {[kind |-> "oserror"], [kind |-> "malformed"]}
                \cup {[kind |-> "ok", doc |-> c] : c \in ConfigDocs}
    IN
    \/ \E name \in SelectNames : HandleSelect(name)
    \/ \E src \in ReloadSources : HandleReload(src)
    \/ HandleReset
    \/ \E name \in {"", "A"}, override \in Overrides :
           HandleProviderAuth(name, override)
    \/ \E name \in {"A", "Z"}, models \in ModelLists :
           UpdateModels(name, models)
    \/ \E name \in {"B", "Z"}, success \in BOOLEAN :
           SetTestResult(name, success)

SpecRegistry == Init /\ [][NextRegistry]_vars

\* A holder of the two results, and the operations of other threads.
NextSnapshot ==
    \/ Hold
    \/ HandleSelect("B")
    \/ \E models \in ModelLists : UpdateModels("A", models)
    \/ \E success \in BOOLEAN : SetTestResult("B", success)
    \/ \E src \in {[kind |-> "ok", doc |-> Cfg2], [kind |-> "oserror"]} :
           HandleReload(src)
    \/ HandleReset

SpecSnapshot == Init /\ [][NextSnapshot]_vars

\* The proxied requests, with the control-plane operations that decide which
\* provider they reach.
NextRelay ==
    \/ \E name \in ProviderNames : HandleSelect(name)
    \/ HandleReload([kind |-> "ok", doc |-> Cfg3])
    \/ HandleReset
    \/ \E w \in Workers, r \in ClientRequests : ProxyDispatch(w, r)
    \/ \E w \in Workers : UpstreamFail(w)
    \/ \E w \in Workers, status_code \in UpstreamStatuses :
           UpstreamAnswer(w, status_code)
    \/ \E w \in Workers, status_code \in UpstreamStatuses :
           StreamBreak(w, status_code)

InitRelay == Init /\ file = <<>>

SpecRelay == InitRelay /\ [][NextRelay]_vars

\* Requests that are in flight at the same time, to a process whose
\* selected provider has a base URL.
InitCounters ==
    /\ config \in {Cfg1, [Providers |-> <<ProvA>>, ERROR_THRESHOLD |-> 2]}
    /\ initial_config = config
    /\ file = <<>>
    /\ state = _load_state(file)
    /\ runtime_providers = _init_providers(config)
    /\ error_counts = EmptyDict
    /\ error_threshold = Get(config, "ERROR_THRESHOLD", DefaultErrorThreshold)
    /\ pc = [w \in 1..MaxRequests |-> "idle"]
    /\ req = [w \in 1..MaxRequests |-> [provider_name |-> "", url |-> ""]]
    /\ last = Done("start", EmptyDict, "", 0, 0)
    /\ streak = EmptyDict
    /\ xf = NoBuild
    /\ rd = NoReader
    /\ task = NoTask
    /\ lock = 0
    /\ held = NoHold

NextCounters ==
    \/ \E w \in DOMAIN pc, r \in ClientRequests : ProxyDispatch(w, r)
    \/ \E w \in DOMAIN pc : UpstreamFail(w)
    \/ \E w \in DOMAIN pc, status_code \in {200, 500} :
           UpstreamAnswer(w, status_code)

SpecCounters == InitCounters /\ [][NextCounters]_vars

Next == NextRegistry \/ NextRelay

Spec == Init /\ [][Next]_vars

-----------------------------------------------------------------------------
(* ProxyRequest on its own: the transformer applied to drawn inputs. *)

\* A profile with the token "abc" and a base URL without a query.
ProvS ==
    [name |-> "S", api_base_url |-> "https://s.test/v1/messages",
     token |-> "abc"]

\* The client headers a request may carry: every subset is drawn.
HeaderPool ==
    ("Authorization" :> "Bearer ckey") @@ ("x-api-key" :> "ckey")
        @@ ("x-goog-api-key" :> "cval") @@ ("X-Auth" :> "cval")
        @@ ("Host" :> "proxy") @@ ("User-Agent" :> "curl/8")
        @@ ("Sec-Fetch-Mode" :> "cors")

\* A process started with no state file, holding the arguments of one
\* request object.
InitTransform ==
    \* A profile whose base URL has a query of its own and that names its
    \* token parameter.
    LET ProvQ ==
            [name |-> "Q", api_base_url |-> "https://q.test/v1/messages?v=1",
             api_key |-> "abc", token_in |-> "query", token_param |-> "pk"]
    IN
    \* A profile without a credential.
    LET ProvN == [name |-> "N", api_base_url |-> "https://n.test/v1/messages?v=1"]
    IN
    LET ProvGoog ==
            [name |-> "G", api_base_url |-> "https://g.test/v1/messages",
             token |-> "tok", token_in |-> "header",
             token_header |-> "X-Goog-Api-Key", token_header_format |-> "{token}"]
    IN
    \* The arguments of one ProxyRequest(provider, override, headers, query,
    \* body, state), not yet transformed.
    LET TransformInputs ==
            \* The query strings of the client's request path.
            LET ClientQueries == {"", "foo=1", "foo=1&key=ckey", "Token=xckeyx&a=b"}
            IN
            LET ClientHeaderSets ==
                    {[k \in S |-> HeaderPool[k]] : S \in SUBSET DOMAIN HeaderPool}
            IN
            LET TransformOverrides ==
                    {EmptyDict, OvHeader, OvQuery,
                     [token_in |-> "both", token_header |-> "X-Auth",
                      header_override |-> "ua"],
                     [token_in |-> "Query", query_params |-> "x=1&key=9"],
                     [header_override |-> "enc"],
                     [header_override |-> "none"]}
            IN
            LET TransformProviders == {ProvA, ProvGoog, ProvQ, ProvN, ProvS}
            IN
            {[NoBuild EXCEPT !.client = [headers |-> headers, query |-> query],
                             !.provider = <<provider>>,
                             !.override = override] :
                provider \in TransformProviders, override \in TransformOverrides,
                headers \in ClientHeaderSets, query \in ClientQueries}
    IN
    \* A configuration without a client API key, with a default token parameter,
    \* with a header-override set that names a hop-by-hop header and with one
    \* that has no entries.
    LET CfgT ==
            [Providers |-> <<ProvA>>, TOKEN_PARAM |-> "tp",
             HeaderOverrides |->
                [ua |-> UserAgentSet,
                 enc |-> ("Accept-Encoding" :> "identity"),
                 none |-> EmptyDict]]
    IN
    /\ config \in {Cfg1, CfgT}
    /\ initial_config = config
    /\ file = <<>>
    /\ state = _load_state(file)
    /\ runtime_providers = _init_providers(config)
    /\ error_counts = EmptyDict
    /\ error_threshold = Get(config, "ERROR_THRESHOLD", DefaultErrorThreshold)
    /\ pc = [w \in Workers |-> "idle"]
    /\ req = [w \in Workers |-> [provider_name |-> "", url |-> ""]]
    /\ last = Done("start", EmptyDict, "", 0, 0)
    /\ streak = EmptyDict
    /\ xf \in TransformInputs
    /\ rd = NoReader
    /\ task = NoTask
    /\ lock = 0
    /\ held = NoHold

\* build_url() and build_headers() on the request object, as in
\* _forward_to_upstream.
Transform ==
    /\ last.op = "start"
    /\ LET provider == xf.provider[1]
       IN xf' = IF build_headers_raises(provider, xf.override)
                THEN xf
                ELSE [xf EXCEPT
                        !.url = build_url(provider, xf.override,
                                          xf.client.query, config),
                        !.headers = build_headers(provider, xf.override,
                                                  xf.client.headers, config),
                        !.built = TRUE]
    /\ last' = Done("transform", EmptyDict,
                    IF xf'.built THEN "return" ELSE "raise", 0, 0)
    /\ UNCHANGED <<registry, pc, req, streak, rd, task, lock, held>>

SpecTransform == InitTransform /\ [][Transform]_vars

-----------------------------------------------------------------------------
(* Model discovery and the refresh-and-test background task. *)

\* What GET {base}/v1/models meets: no connection, a status that
\* raise_for_status rejects, a body that is not JSON, JSON that is a list,
\* or an object whose "data" lists entries with these ids ("" for an entry
\* without an id).
UpstreamModels ==
    {[kind |-> "unreachable", ids |-> <<>>], [kind |-> "status", ids |-> <<>>],
     [kind |-> "notjson", ids |-> <<>>], [kind |-> "list", ids |-> <<>>],
     [kind |-> "data", ids |-> <<>>], [kind |-> "data", ids |-> <<"", "m1">>]}

\* fetch_models(provider, token_param, timeout, override): the pair it
\* returns, or raised.  The header is formatted before the try block; every
\* failure of the request and of the decoding is caught inside it.
fetch_models(provider, override, upstream) ==
    LET token == provider_token(provider)
        mode == Lower(OrElse(Get(override, "token_in", ""),
                             Get(provider, "token_in", "header")))
        header_format ==
            OrElse(Get(override, "token_header_format", ""),
                   Get(provider, "token_header_format", "Bearer {token}"))
        models == SelectSeq(upstream.ids, LAMBDA id : id # "")
        result(m, e, r) == [models |-> m, error |-> e, raised |-> r]
    IN IF Get(provider, "api_base_url", "") = ""
       THEN result(<<>>, "missing api_base_url", FALSE)
       ELSE IF token # "" /\ mode \in {"header", "both"}
               /\ FormatRaises(header_format)
       THEN result(<<>>, "", TRUE)
       ELSE IF upstream.kind # "data" THEN result(<<>>, "exc", FALSE)
       ELSE IF models # <<>> THEN result(models, "", FALSE)
       ELSE result(<<>>, "empty model list", FALSE)

\* A profile with a base URL whose header template names a field that
\* str.format is not given.
ProvBad ==
    [name |-> "B", api_base_url |-> "https://b.test/v1/messages",
     token |-> "tokB", token_header_format |-> "Bearer {key}"]

\* A process started with one of the discovery configurations.
InitDiscovery ==
    /\ config \in {Cfg1, [Providers |-> <<ProvA, ProvBad>>],
                   [Providers |-> <<ProvBad, [name |-> "Note"], ProvA>>]}
    /\ initial_config = config
    /\ file \in {<<>>, <<[selected_provider |-> "B"]>>}
    /\ state = _load_state(file)
    /\ runtime_providers = _init_providers(config)
    /\ error_counts = EmptyDict
    /\ error_threshold = Get(config, "ERROR_THRESHOLD", DefaultErrorThreshold)
    /\ pc = [w \in Workers |-> "idle"]
    /\ req = [w \in Workers |-> [provider_name |-> "", url |-> ""]]
    /\ last = Done("start", EmptyDict, "", 0, 0)
    /\ streak = EmptyDict
    /\ xf = NoBuild
    /\ rd = NoReader
    /\ task = NoTask
    /\ lock = 0
    /\ held = NoHold

\* POST /api/refresh-and-test: the background thread starts and reads the
\* provider list and the selected provider.
StartTask ==
    /\ task.pc = "idle"
    /\ LET sel == get_selected_provider(state, runtime_providers)
       IN task' = [pc |-> IF runtime_providers = <<>> THEN "restore"
                          ELSE "fetch",
                   providers |-> get_providers(runtime_providers),
                   original_selected |-> sel, i |-> 1, models |-> <<>>,
                   before |-> [selected |-> sel,
                               required |-> Get(state, "selection_required",
                                                FALSE)],
                   disturbed |-> FALSE, probed |-> {}]
    /\ last' = Done("refreshStart", EmptyDict, "return", 200, 0)
    /\ UNCHANGED <<registry, pc, req, streak, xf, rd, lock, held>>

\* The task moves to the next provider of its list, or to the restore.
NextProvider(t) ==
    IF t.i < Len(t.providers) THEN [t EXCEPT !.pc = "fetch", !.i = @ + 1]
    ELSE [t EXCEPT !.pc = "restore"]

\* Step 1 of the loop body: fetch_models, then update_provider_models or
\* set_test_result(False).  An exception ends the thread.
TaskFetch(upstream) ==
    /\ task.pc = "fetch"
    /\ LET p == task.providers[task.i]
           r == fetch_models(p, get_provider_override(state, NameOf(p)),
                             upstream)
       IN /\ runtime_providers' =
                 IF r.raised THEN runtime_providers
                 ELSE IF r.models # <<>>
                 THEN update_provider_models(runtime_providers, NameOf(p),
                                             r.models)
                 ELSE set_test_result(runtime_providers, NameOf(p), FALSE)
          /\ held' =
                 IF r.raised THEN held
                 ELSE IF r.models # <<>>
                 THEN Seen(held, NameOf(p), "models", r.models)
                 ELSE Seen(held, NameOf(p), "test_result", FALSE)
          /\ task' = IF r.raised THEN [task EXCEPT !.pc = "dead"]
                     ELSE IF r.models # <<>>
                     THEN [task EXCEPT !.pc = "select", !.models = r.models]
                     ELSE NextProvider(task)
          /\ last' = Done("fetch",
                          [models |-> r.models, error |-> r.error],
                          IF r.raised THEN "raise" ELSE "return", 0, 0)
    /\ UNCHANGED <<config, initial_config, state, error_counts,
                   error_threshold, file, pc, req, streak, xf, rd, lock>>

\* Step 2: the task selects the provider it is about to test.
TaskSelect ==
    /\ task.pc = "select"
    /\ LET r == set_selected_provider(state, runtime_providers,
                                      NameOf(task.providers[task.i]))
       IN /\ state' = r.state
          /\ file' = IF r.saved THEN save_state(r.state) ELSE file
    /\ task' = [task EXCEPT !.pc = "test"]
    /\ last' = Done("refreshSelect", EmptyDict, "return", 0, 0)
    /\ UNCHANGED <<config, initial_config, runtime_providers, error_counts,
                   error_threshold, pc, req, streak, xf, rd, lock, held>>

\* _test_provider on the selected provider, then set_test_result.  The test
\* fails when no provider is selected; otherwise the upstream decides.
TaskTest(success) ==
    /\ task.pc = "test"
    /\ get_selected_provider(state, runtime_providers) = <<>> => ~success
    /\ runtime_providers' =
           set_test_result(runtime_providers, NameOf(task.providers[task.i]),
                           success)
    /\ held' = Seen(held, NameOf(task.providers[task.i]), "test_result",
                    success)
    /\ task' = NextProvider(task)
    /\ last' = Done("refreshTest", EmptyDict, "return", 0, 0)
    /\ UNCHANGED <<config, initial_config, state, error_counts,
                   error_threshold, file, pc, req, streak, xf, rd, lock>>

\* After the loop: the provider read at the start is selected again, if
\* there was one.
TaskRestore ==
    /\ task.pc = "restore"
    /\ LET r == IF task.original_selected = <<>>
                THEN [ok |-> FALSE, state |-> state, saved |-> FALSE]
                ELSE set_selected_provider(state, runtime_providers,
                                           NameOf(task.original_selected[1]))
       IN /\ state' = r.state
          /\ file' = IF r.saved THEN save_state(r.state) ELSE file
    /\ task' = [task EXCEPT !.pc = "idle"]
    /\ last' = Done("refreshDone", EmptyDict, "return", 0, 0)
    /\ UNCHANGED <<config, initial_config, runtime_providers, error_counts,
                   error_threshold, pc, req, streak, xf, rd, lock, held>>

\* refresh_all_models(state), started in a thread by main(): the list is
\* read once.
StartRefresh ==
    /\ task.pc = "idle"
    /\ task' = [NoTask EXCEPT !.pc = IF runtime_providers = <<>> THEN "idle"
                                     ELSE "visit",
                              !.providers = get_providers(runtime_providers),
                              !.i = 1]
    /\ last' = Done("refreshAllStart", EmptyDict, "return", 0, 0)
    /\ UNCHANGED <<registry, pc, req, streak, xf, rd, lock, held>>

\* One pass of the loop of refresh_all_models: "Note" is skipped, the others
\* are fetched and a non-empty result is stored.  An exception that leaves
\* fetch_models leaves the loop and the thread.
RefreshVisit(upstream) ==
    /\ task.pc = "visit"
    /\ LET p == task.providers[task.i]
           skip == NameOf(p) = "Note"
           r == fetch_models(p, get_provider_override(state, NameOf(p)),
                             upstream)
           raised == ~skip /\ r.raised
           stored == ~skip /\ ~r.raised /\ r.models # <<>>
           t == IF skip THEN task
                ELSE [task EXCEPT !.probed = @ \cup {task.i}]
       IN /\ runtime_providers' =
                 IF stored
                 THEN update_provider_models(runtime_providers, NameOf(p),
                                             r.models)
                 ELSE runtime_providers
          /\ held' = IF stored THEN Seen(held, NameOf(p), "models", r.models)
                     ELSE held
          /\ task' = IF raised THEN [t EXCEPT !.pc = "dead"]
                     ELSE IF task.i < Len(task.providers)
                     THEN [t EXCEPT !.i = @ + 1]
                     ELSE [t EXCEPT !.pc = "idle"]
          /\ last' = Done("refreshAll",
                          [name |-> NameOf(p), stored |-> stored],
                          IF raised THEN "raise" ELSE "return", 0, 0)
    /\ UNCHANGED <<config, initial_config, state, error_counts,
                   error_threshold, file, pc, req, streak, xf, rd, lock>>

NextDiscovery ==
    \/ StartTask
    \/ StartRefresh
    \/ \E upstream \in UpstreamModels : RefreshVisit(upstream)
    \/ \E upstream \in UpstreamModels : TaskFetch(upstream)
    \/ TaskSelect
    \/ \E success \in BOOLEAN : TaskTest(success)
    \/ TaskRestore
    \/ \E name \in ProviderNames : HandleSelect(name)
    \/ HandleReload([kind |-> "ok", doc |-> Cfg4])
    \/ HandleReset
    \/ HandleProviderAuth("A", OvHeader)

SpecDiscovery == InitDiscovery /\ [][NextDiscovery]_vars

-----------------------------------------------------------------------------
(* ProxyHandler._read_body with Transfer-Encoding: chunked. *)

\* The value of a string of hexadecimal digits, -1 when it is not one.
RECURSIVE HexValue(_)
HexValue(digits) ==
    LET d == Find("0123456789abcdef", Lower(SubSeq(digits, Len(digits), Len(digits))))
        high == IF Len(digits) = 1 THEN 0
                ELSE HexValue(SubSeq(digits, 1, Len(digits) - 1))
    IN IF digits = "" \/ d = 0 \/ high = -1 THEN -1 ELSE 16 * high + d - 1

\* int(size_str, 16): an optional sign, an optional 0x prefix, hexadecimal
\* digits.  ok is FALSE for ValueError.
int16(size_str) ==
    LET signed == Len(size_str) > 0 /\ SubSeq(size_str, 1, 1) \in {"+", "-"}
        u == IF signed THEN SubSeq(size_str, 2, Len(size_str)) ELSE size_str
        digits == IF StartsWith(Lower(u), "0x") THEN SubSeq(u, 3, Len(u)) ELSE u
        v == HexValue(digits)
    IN [ok |-> v # -1,
        value |-> IF signed /\ SubSeq(size_str, 1, 1) = "-" THEN 0 - v ELSE v]

\* rfile.readline(): up to and with the next "\n", or what is left.
readline(rfile) ==
    LET i == Find(rfile, "\n")
    IN IF i = 0 THEN rfile ELSE SubSeq(rfile, 1, i)

\* What is left of rfile after n bytes were read.
After(rfile, n) == SubSeq(rfile, MinOf({n, Len(rfile)}) + 1, Len(rfile))

\* The trailer loop: lines are read up to an empty line or the end of input.
RECURSIVE Drain(_)
Drain(rfile) ==
    LET tail == readline(rfile)
    IN IF tail = "" \/ tail \in {"\r\n", "\n"}
       THEN After(rfile, Len(tail))
       ELSE Drain(After(rfile, Len(tail)))

\* One round of the `while True` loop of _read_body.  rfile.read(size)
\* reads to the end of input for size -1 and raises ValueError below -1.
read_chunk(r) ==
    LET line == readline(r.rfile)
        rest == After(r.rfile, Len(line))
        semi == Find(line, ";")
        size_str == Strip(IF semi = 0 THEN line ELSE SubSeq(line, 1, semi - 1))
        size == int16(size_str)
        n == IF size.value = -1 THEN Len(rest) ELSE size.value
        done == [r EXCEPT !.pc = "done", !.body = r.chunks]
    IN IF line = "" THEN done
       ELSE IF ~size.ok THEN [done EXCEPT !.rfile = rest]
       ELSE IF size.value = 0 THEN [done EXCEPT !.rfile = Drain(rest)]
       ELSE IF size.value < -1 THEN [r EXCEPT !.pc = "raised", !.rfile = rest]
       ELSE [r EXCEPT !.chunks = @ \o SubSeq(rest, 1, MinOf({n, Len(rest)})),
                      !.rfile = After(After(rest, n), 2)]

\* The bodies a client sends: up to MaxChunks chunks and an ending.
RECURSIVE ChunkedBodies(_)
ChunkedBodies(n) ==
    \* How the client's body ends: the zero-length chunk with or without
    \* trailer lines, the end of input, or a length line that is not a
    \* hexadecimal number.
    LET ClientEndings ==
            {"0\r\n\r\n", "0\r\nT: v\r\n\r\n", "", "zz\r\nrest", "\r\n", "-1\r\nabc",
             "-2\r\nabc"}
    IN
    \* The chunks a client writes: a hexadecimal length, an extension, the
    \* payload.
    LET ClientChunks ==
            {[size |-> "4", ext |-> "", payload |-> "test"],
             [size |-> "2", ext |-> ";x=1", payload |-> "ab"],
             [size |-> "A", ext |-> "", payload |-> "0123456789"]}
    IN
    IF n = 0 THEN {[rfile |-> e, sent |-> ""] : e \in ClientEndings}
    ELSE ChunkedBodies(n - 1) \cup
         {[rfile |-> c.size \o c.ext \o "\r\n" \o c.payload \o "\r\n"
                       \o b.rfile,
           sent |-> c.payload \o b.sent] :
             c \in ClientChunks, b \in ChunkedBodies(n - 1)}

\* A handler about to read a chunked request body.
InitChunked ==
    /\ config = Cfg1
    /\ initial_config = config
    /\ file = <<>>
    /\ state = _load_state(file)
    /\ runtime_providers = _init_providers(config)
    /\ error_counts = EmptyDict
    /\ error_threshold = Get(config, "ERROR_THRESHOLD", DefaultErrorThreshold)
    /\ pc = [w \in Workers |-> "idle"]
    /\ req = [w \in Workers |-> [provider_name |-> "", url |-> ""]]
    /\ last = Done("start", EmptyDict, "", 0, 0)
    /\ streak = EmptyDict
    /\ xf = NoBuild
    /\ rd \in {[NoReader EXCEPT !.pc = "loop", !.rfile = b.rfile,
                                !.sent = b.sent] : b \in ChunkedBodies(MaxChunks)}
    /\ task = NoTask
    /\ lock = 0
    /\ held = NoHold

ReadChunk ==
    /\ rd.pc = "loop"
    /\ rd' = read_chunk(rd)
    /\ last' = Done("readChunk", EmptyDict,
                    IF rd'.pc = "raised" THEN "raise" ELSE "return", 0, 0)
    /\ UNCHANGED <<registry, pc, req, streak, xf, task, lock, held>>

SpecChunked == InitChunked /\ [][ReadChunk]_vars

-----------------------------------------------------------------------------
(* ProxyRequest.build_body on its own. *)

\* An injection map; model and x are not fields that build_body injects.
Inject1 ==
    <<<<"system", "\"S\"">>, <<"x", "9">>, <<"tools", "[]">>,
      <<"model", "\"z\"">>>>

\* A process that holds the arguments of one request object with a body.
InitBody ==
    LET ClientBodies ==
            {"{\"x\":1,\"system\":\"s\",\"messages\":[],\"model\":\"m\"}",
             "{ \"messages\": [], \"y\": 2 }",
             "{\"metadata\":{},\"tools\":[1],\"a\":true}",
             "{}", "[1]", "[\"system\"]", "\"model\"", "5", "null",
             "{\"model\"", "{\"model\":}", "model=m", ""}
    IN
    LET CfgBody ==
            [Providers |-> <<ProvA>>,
             RequestOverrides |-> [r1 |-> <<<<"metadata", "null">>>>]]
    IN
    \* The selected provider of the request: one without body settings, one
    \* that carries an inline request_inject map, one that names the set r1.
    LET BodyProviders ==
            {ProvA,
             [name |-> "A", api_base_url |-> "https://a.test/v1/messages",
              request_inject |-> Inject1],
             [name |-> "A", api_base_url |-> "https://a.test/v1/messages",
              request_override |-> "r1"]}
    IN
    LET BodyOverrides ==
            {EmptyDict, OvHeader,
             [request_inject |-> Inject1],
             [request_override |-> "r1"],
             [request_override |-> "zz"],
             [request_override |-> "zz", request_inject |-> Inject1],
             [request_override |-> "r1", request_inject |-> Inject1]}
    IN
    /\ config \in {Cfg1, CfgBody}
    /\ initial_config = config
    /\ file = <<>>
    /\ state = _load_state(file)
    /\ runtime_providers = _init_providers(config)
    /\ error_counts = EmptyDict
    /\ error_threshold = Get(config, "ERROR_THRESHOLD", DefaultErrorThreshold)
    /\ pc = [w \in Workers |-> "idle"]
    /\ req = [w \in Workers |-> [provider_name |-> "", url |-> ""]]
    /\ last = Done("start", EmptyDict, "", 0, 0)
    /\ streak = EmptyDict
    /\ xf \in {[NoBuild EXCEPT !.provider = <<p>>, !.override = o,
                               !.client_body = b] :
                  p \in BodyProviders, o \in BodyOverrides,
                  b \in ClientBodies}
    /\ rd = NoReader
    /\ task = NoTask
    /\ lock = 0
    /\ held = NoHold

\* build_body() on the request object, as in _forward_to_upstream.
BuildBody ==
    /\ last.op = "start"
    /\ xf' = [xf EXCEPT !.body = build_body(xf.override, config, xf.client_body),
                        !.built = TRUE]
    /\ last' = Done("body", EmptyDict, "return", 0, 0)
    /\ UNCHANGED <<registry, pc, req, streak, rd, task, lock, held>>

SpecBody == InitBody /\ [][BuildBody]_vars

-----------------------------------------------------------------------------
(* ProxyHandler._is_authorized on its own. *)

\* A process that holds one request, with or without a client API key.
InitCredential ==
    \* The requests of the credential check: each carries any of the three
    \* credential headers, with these values as the header parser delivers
    \* them (leading blanks removed, trailing blanks kept), and a query string.
    LET CredentialRequests ==
            LET opt(name, values) ==
                    {EmptyDict} \cup {name :> v : v \in values}
            IN {[headers |-> x @@ a @@ t, query |-> q] :
                   x \in opt("X-Api-Key", {"ckey", "bad", "ckey "}),
                   a \in opt("Authorization",
                             {"Bearer ckey", "bearer  bad", "Bearer ", "Basic dTpja2V5"}),
                   t \in opt("anthropic-auth-token", {"ckey"}),
                   q \in {"", "token=ckey", "token=&key=ckey", "key=bad&api_key=ckey",
                          "token=bad&token=ckey"}}
    IN
    /\ config \in {Cfg1, Cfg2}
    /\ initial_config = config
    /\ file = <<>>
    /\ state = _load_state(file)
    /\ runtime_providers = _init_providers(config)
    /\ error_counts = EmptyDict
    /\ error_threshold = Get(config, "ERROR_THRESHOLD", DefaultErrorThreshold)
    /\ pc = [w \in Workers |-> "idle"]
    /\ req = [w \in Workers |-> [provider_name |-> "", url |-> ""]]
    /\ last = Done("start", EmptyDict, "", 0, 0)
    /\ streak = EmptyDict
    /\ xf \in {[NoBuild EXCEPT !.client = r] : r \in CredentialRequests}
    /\ rd = NoReader
    /\ task = NoTask
    /\ lock = 0
    /\ held = NoHold

\* _is_authorized(state) on the request, as in _proxy_messages.
Authorize ==
    /\ last.op = "start"
    /\ last' = Done("authorize",
                    [token |-> _extract_client_token(xf.client.headers,
                                                     xf.client.query)],
                    IF _is_authorized(config, xf.client.headers,
                                      xf.client.query)
                    THEN "true" ELSE "false", 0, 0)
    /\ UNCHANGED <<registry, pc, req, streak, xf, rd, task, lock, held>>

SpecCredential == InitCredential /\ [][Authorize]_vars

-----------------------------------------------------------------------------
(* The control plane behind its gate: do_GET and do_POST. *)

\* do_GET / do_POST up to the handler: the path is one of the guarded
\* ones and _ui_authorized decides.  A refused request has its 401 and the
\* method returns; an admitted one goes on to its handler.
ControlArrive(path, r) ==
    /\ ~(last.op = "control" /\ last.ret = "admitted")
    /\ LET ok == _ui_authorized(config, r.headers, r.query)
       IN last' = Done("control", [path |-> path, client |-> r],
                       IF ok THEN "admitted" ELSE "return",
                       IF ok THEN 0 ELSE 401, 0)
    /\ UNCHANGED <<registry, pc, req, streak, xf, rd, task, lock, held>>

\* GET /api/state: the payload read out of the registry.
HandleState ==
    /\ LET selected == get_selected_provider(state, runtime_providers)
       IN last' = Done("state",
                       [selected_provider |->
                            IF selected = <<>> THEN ""
                            ELSE NameOf(selected[1]),
                        providers |-> get_providers(runtime_providers),
                        selected_override |-> get_provider_override(state, "")],
                       "return", 200, 0)
    /\ UNCHANGED <<registry, pc, req, streak, xf, rd, task, lock, held>>

\* The guarded paths with their handlers.  /api/refresh-and-test starts the
\* background thread and returns; the thread's own steps are those of
\* SpecDiscovery.
NextControl ==
    LET Admitted(path) ==
            /\ last.op = "control" /\ last.ret = "admitted"
            /\ last.input.path = path
        credentials ==
            {EmptyDict, [Authorization |-> "Basic dTpja2V5"],
             [Authorization |-> "Basic Y2tleTp1"]}
    IN \/ \E path \in {"/api/state", "/api/select", "/api/refresh-models",
                        "/api/reload", "/api/reset", "/api/provider-auth",
                        "/api/test-provider", "/api/refresh-and-test"},
             h \in credentials :
             ControlArrive(path, [query |-> "", headers |-> h])
       \/ Admitted("/api/state") /\ HandleState
       \/ Admitted("/api/select") /\ HandleSelect("B")
       \/ Admitted("/api/refresh-models")
             /\ \E models \in ModelLists : UpdateModels("A", models)
       \/ Admitted("/api/reload")
             /\ HandleReload([kind |-> "ok", doc |-> Cfg2])
       \/ Admitted("/api/reset") /\ HandleReset
       \/ Admitted("/api/provider-auth") /\ HandleProviderAuth("A", OvHeader)
       \/ Admitted("/api/test-provider") /\ SetTestResult("B", TRUE)
       \/ Admitted("/api/refresh-and-test") /\ StartTask

\* A process started with a client API key configured and no state file.
InitControl == InitRelay /\ config = Cfg1

SpecControl == InitControl /\ [][NextControl]_vars

-----------------------------------------------------------------------------
(* The registry mutex: the threads that call into ProxyState. *)

\* Threads inside the process at the same time: ThreadingHTTPServer starts
\* one for each request, main() starts one for refresh_all_models.
MaxThreads == 2

Threads == 1..MaxThreads

\* What a thread has left to do, as steps <<what, argument, value>>:
\* "acquire" and "release" are the entry and the exit of `with self._lock`,
\* "requests.get", "requests.post" and "iter_content" are the outbound
\* calls, and every other step is the body of the ProxyState method named.
Locked(m, a, v) ==
    <<<<"acquire", "", "">>, <<m, a, v>>, <<"release", "", "">>>>

\* A method whose body is not inside `with self._lock`.
Unlocked(m, a) == <<<<m, a, "">>>>

NetworkCalls == {"requests.get", "requests.post", "iter_content"}

\* A thread that has not been started.  `posted` is history: the provider
\* the thread's last requests.post was sent to.
NoThread ==
    [handler |-> "", target |-> "", steps |-> <<>>, providers |-> <<>>,
     provider |-> <<>>, override |-> EmptyDict, models |-> <<>>,
     count |-> 0, original_selected |-> <<>>, posted |-> ""]

\* `extra` runs once the method that is executing has left its lock.
InsertAfterRelease(rest, extra) ==
    IF rest # <<>> /\ Head(rest)[1] = "release"
    THEN <<Head(rest)>> \o extra \o Tail(rest)
    ELSE extra \o rest

\* for provider in state.get_providers(): the "Note" entry is skipped, every
\* other one starts with get_provider_override.
RECURSIVE refresh_visits(_)
refresh_visits(provs) ==
    IF provs = <<>> THEN <<>>
    ELSE (IF NameOf(Head(provs)) = "Note" THEN <<>>
          ELSE Locked("get_provider_override", NameOf(Head(provs)), ""))
         \o refresh_visits(Tail(provs))

\* fetch_models holds the mutex while it waits for the upstream.
fetch_models_steps_locked(name) ==
    <<<<"acquire", "", "">>, <<"requests.get", name, "">>,
      <<"release", "", "">>>>

\* fetch_models, once the URL and the headers are built: requests.get.
fetch_models_steps(name) == <<<<"requests.get", name, "">>>>

\* ProxyRequest.__init__, build_url, build_headers, build_body and the rest
\* of _forward_to_upstream for a request without a query: the registry reads
\* they make, up to requests.post.  Nothing follows a raise.
_forward_to_upstream_steps(provider, override) ==
    LET name == NameOf(provider)
        reads_param ==
            /\ token_in(provider, override) \in {"query", "both"}
            /\ Get(override, "token_param", "") = ""
            /\ Get(provider, "token_param", "") = ""
        header_override ==
            OrElse(Get(override, "header_override", ""),
                   Get(provider, "header_override", ""))
        request_override == Get(override, "request_override", "")
    IN Unlocked("get_config", "APIKEY")
       \o (IF reads_param THEN Unlocked("get_config", "TOKEN_PARAM")
           ELSE <<>>)
       \o (IF build_headers_raises(provider, override) THEN <<>>
           ELSE (IF header_override # ""
                 THEN Unlocked("get_header_overrides", "") ELSE <<>>)
                \o (IF request_override # ""
                    THEN Unlocked("get_request_overrides", "") ELSE <<>>)
                \o (IF Get(provider, "api_base_url", "") = "" THEN <<>>
                    ELSE Unlocked("get_config", "API_TIMEOUT_MS")
                         \o <<<<"requests.post", name, "">>>>))

\* The first statements of each entry point.
Program(handler, target) ==
    CASE handler = "refresh_all_models" ->
             Unlocked("get_config", "TOKEN_PARAM")
             \o Unlocked("get_config", "API_TIMEOUT_MS")
             \o Locked("get_providers", "", "")
      [] handler = "_proxy_messages" ->
             Locked("get_selected_provider", "", "")
      [] handler = "_handle_test_provider" ->
             Locked("get_providers", "", "")
      [] handler = "background_task" ->
             Unlocked("get_config", "TOKEN_PARAM")
             \o Unlocked("get_config", "API_TIMEOUT_MS")
             \o Locked("get_providers", "", "")
             \o Locked("get_selected_provider", "", "original")
      [] handler = "_handle_select" ->
             Locked("set_selected_provider", target, "")
      [] handler = "_handle_reset" -> Locked("reset_config", "", "")
      [] handler = "_handle_provider_auth" ->
             Locked("set_provider_override", target, "")
      [] handler = "_handle_reload" ->
             <<<<"acquire", "", "">>, <<"open_config", "", target>>,
               <<"set_config", "", "">>, <<"set_providers", "", "">>,
               <<"release", "", "">>>>

\* A failed provider test is counted like a failed client request.
after_post_counts_tests(handler, target, provider_name, status_code) ==
    IF handler # "_proxy_messages"
    THEN (IF status_code \notin {0, 200}
          THEN Locked("increment_error_count", provider_name, "") ELSE <<>>)
         \o Locked("set_test_result", target,
                   IF status_code = 200 THEN "true" ELSE "false")
    ELSE IF status_code = 0 THEN <<>>
    ELSE IF status_code # 200
    THEN Locked("increment_error_count", provider_name, "")
    ELSE Locked("reset_error_count", provider_name, "")

\* What follows requests.post (status_code 0: it raised).  _test_provider
\* turns the answer into success and its caller stores it under `target`;
\* _proxy_messages answers 502 on an exception and otherwise enters
\* _stream_response, which counts the answer for provider_name.
after_post(handler, target, provider_name, status_code) ==
    IF handler # "_proxy_messages"
    THEN Locked("set_test_result", target,
                IF status_code = 200 THEN "true" ELSE "false")
    ELSE IF status_code = 0 THEN <<>>
    ELSE IF status_code # 200
    THEN Locked("increment_error_count", provider_name, "")
    ELSE Locked("reset_error_count", provider_name, "")

\* A process started with Cfg1 and no state file; no thread runs yet.
InitMutex ==
    /\ config = Cfg1
    /\ initial_config = config
    /\ file = <<>>
    /\ state = _load_state(file)
    /\ runtime_providers = _init_providers(config)
    /\ error_counts = EmptyDict
    /\ error_threshold = Get(config, "ERROR_THRESHOLD", DefaultErrorThreshold)
    /\ pc = [t \in Threads |-> "idle"]
    /\ req = [t \in Threads |-> NoThread]
    /\ last = Done("start", EmptyDict, "", 0, 0)
    /\ streak = EmptyDict
    /\ xf = NoBuild
    /\ rd = NoReader
    /\ task = NoTask
    /\ lock = 0
    /\ held = NoHold

\* What `last` keeps of a step: who took it, and who held the mutex.
StepBy(t, a) == [thread |-> t, arg |-> a, locked |-> lock = t, holder |-> lock]

\* The thread goes on with r; it ends when nothing is left.
Continue(t, r) ==
    /\ req' = [req EXCEPT ![t] = r]
    /\ pc' = [pc EXCEPT ![t] = IF r.steps = <<>> THEN "done" ELSE "run"]

\* A request arrives, or main() starts the refresh thread.
Spawn(t, handler, target) ==
    /\ pc[t] = "idle"
    /\ Continue(t, [NoThread EXCEPT !.handler = handler, !.target = target,
                                    !.steps = Program(handler, target)])
    /\ last' = Done("spawn", StepBy(t, target), handler, 0, 0)
    /\ UNCHANGED <<registry, streak, xf, rd, task, lock, held>>

\* with self._lock: threading.Lock is not reentrant.
Acquire(t) ==
    /\ pc[t] = "run"
    /\ Head(req[t].steps)[1] = "acquire"
    /\ lock = 0
    /\ lock' = t
    /\ Continue(t, [req[t] EXCEPT !.steps = Tail(@)])
    /\ last' = Done("acquire", StepBy(t, ""), "", 0, 0)
    /\ UNCHANGED <<registry, streak, xf, rd, task, held>>

\* The end of the `with` block.
Release(t) ==
    /\ pc[t] = "run"
    /\ Head(req[t].steps)[1] = "release"
    /\ lock' = 0
    /\ Continue(t, [req[t] EXCEPT !.steps = Tail(@)])
    /\ last' = Done("release", StepBy(t, ""), "", 0, 0)
    /\ UNCHANGED <<registry, streak, xf, rd, task, held>>

\* The body of one ProxyState method, and what its caller does with the
\* result.
Access(t) ==
    /\ pc[t] = "run"
    /\ Head(req[t].steps)[1] \notin {"acquire", "release"} \cup NetworkCalls
    /\ LET me == req[t]
           m == Head(me.steps)[1]
           a == Head(me.steps)[2]
           v == Head(me.steps)[3]
           rest == Tail(me.steps)
           Go == [me EXCEPT !.steps = rest]
           Then(extra) == [me EXCEPT !.steps = InsertAfterRelease(rest, extra)]
           \* The handler returns or raises: nothing is left but the exit
           \* of the `with` block it is in.
           End == [me EXCEPT !.steps =
                      IF rest # <<>> /\ Head(rest)[1] = "release"
                      THEN <<Head(rest)>> ELSE <<>>]
           \* Whether the steps end in the outbound call.
           Posts(steps) ==
               steps # <<>> /\ steps[Len(steps)][1] = "requests.post"
           same == [config |-> config, runtime_providers |-> runtime_providers,
                    state |-> state, file |-> file,
                    error_counts |-> error_counts, thread |-> Go]
           selected == get_selected_provider(state, runtime_providers)
           ov == get_provider_override(state, a)
           r ==
             CASE m = "get_providers" ->
                    IF me.handler = "refresh_all_models"
                    THEN [same EXCEPT !.thread =
                           [Then(refresh_visits(get_providers(runtime_providers)))
                              EXCEPT !.providers =
                                         get_providers(runtime_providers)]]
                    ELSE IF me.handler = "background_task"
                    THEN [same EXCEPT !.thread =
                           [Go EXCEPT !.providers =
                                          get_providers(runtime_providers)]]
                    ELSE [same EXCEPT !.thread =
                           IF HasProvider(runtime_providers, me.target)
                           THEN Then(Locked("get_selected_provider", "", ""))
                           ELSE End]
               [] m = "get_selected_provider" ->
                    IF v = "original"
                    THEN [same EXCEPT !.thread =
                           [Then(refresh_visits(me.providers)
                                 \o (IF selected = <<>> THEN <<>>
                                     ELSE Locked("set_selected_provider",
                                                 NameOf(selected[1]), "")))
                              EXCEPT !.original_selected = <<selected>>]]
                    ELSE IF me.handler = "_proxy_messages"
                    THEN [same EXCEPT !.thread =
                           IF selected = <<>> THEN End
                           ELSE [Then(Unlocked("get_config", "APIKEY")
                                      \o Locked("get_provider_override",
                                                NameOf(selected[1]), ""))
                                   EXCEPT !.provider = selected]]
                    ELSE [same EXCEPT !.thread =
                           IF selected = <<>>
                           THEN Then(Locked("set_test_result", me.target,
                                            "false"))
                           ELSE [Then(Locked("get_provider_override",
                                             NameOf(selected[1]), "test"))
                                   EXCEPT !.provider = selected]]
               [] m = "get_provider_override" ->
                    IF v # "test" /\ me.handler # "_proxy_messages"
                    THEN LET i == MinOf({j \in 1..Len(me.providers) :
                                            NameOf(me.providers[j]) = a})
                             p == me.providers[i]
                             probe == fetch_models(p, ov,
                                          [kind |-> "unreachable",
                                           ids |-> <<>>])
                         IN [same EXCEPT !.thread =
                              [(IF probe.raised THEN End
                                ELSE IF probe.error = "missing api_base_url"
                                THEN IF me.handler = "background_task"
                                     THEN Then(Locked("set_test_result", a,
                                                      "false"))
                                     ELSE Go
                                ELSE [Then(fetch_models_steps(a))
                                        EXCEPT !.provider = <<p>>,
                                               !.override = ov])
                                 EXCEPT !.posted = ""]]
                    ELSE LET fw == _forward_to_upstream_steps(me.provider[1],
                                                              ov)
                         IN [same EXCEPT !.thread =
                              [Then(IF me.handler # "_proxy_messages"
                                       /\ ~Posts(fw)
                                    THEN fw \o Locked("set_test_result",
                                                      me.target, "false")
                                    ELSE fw)
                                 EXCEPT !.override = ov]]
               [] m = "update_provider_models" ->
                    [same EXCEPT !.runtime_providers =
                        update_provider_models(runtime_providers, a,
                                               me.models)]
               [] m = "set_test_result" ->
                    [same EXCEPT !.runtime_providers =
                        set_test_result(runtime_providers, a, v = "true")]
               [] m = "set_selected_provider" ->
                    LET s == set_selected_provider(state, runtime_providers, a)
                    IN [same EXCEPT !.state = s.state,
                                    !.file = IF s.saved
                                             THEN save_state(s.state)
                                             ELSE file]
               [] m = "increment_error_count" ->
                    LET s == increment_error_count(error_counts, a)
                    IN [same EXCEPT !.error_counts = s.counts,
                                    !.thread =
                                        [Then(Unlocked("get_error_threshold",
                                                       a))
                                           EXCEPT !.count = s.count]]
               [] m = "reset_error_count" ->
                    [same EXCEPT !.error_counts =
                                     reset_error_count(error_counts, a),
                                 !.thread =
                                     Then(<<<<"iter_content", a, "">>>>)]
               [] m = "get_error_threshold" ->
                    [same EXCEPT !.thread =
                        IF me.count < get_error_threshold(error_threshold)
                        THEN End
                        ELSE Then(<<<<"iter_content", a, "">>>>)]
               [] m = "reset_config" ->
                    LET s == reset_config(initial_config, state)
                    IN [same EXCEPT !.config = s.config,
                                    !.runtime_providers = s.runtime_providers,
                                    !.state = s.state,
                                    !.file = IF s.saved
                                             THEN save_state(s.state)
                                             ELSE file]
               [] m = "set_provider_override" ->
                    LET s == set_provider_override(state, a, OvHeader)
                    IN [same EXCEPT !.state = s, !.file = save_state(s)]
               [] m = "open_config" ->
                    [same EXCEPT !.thread = IF v = "oserror" THEN End ELSE Go]
               [] m = "set_config" -> [same EXCEPT !.config = Cfg2]
               [] m = "set_providers" ->
                    LET s == reload_config([kind |-> "ok", doc |-> config],
                                           config, state, runtime_providers)
                    IN [same EXCEPT !.runtime_providers = s.runtime_providers,
                                    !.state = s.state,
                                    !.file = IF s.saved
                                             THEN save_state(s.state)
                                             ELSE file]
               [] OTHER -> same
       IN /\ config' = r.config
          /\ runtime_providers' = r.runtime_providers
          /\ state' = r.state
          /\ file' = r.file
          /\ error_counts' = r.error_counts
          /\ Continue(t, r.thread)
          /\ last' = Done(m, StepBy(t, a), v, 0, 0)
    /\ UNCHANGED <<initial_config, error_threshold, streak, xf, rd, task,
                   lock, held>>

\* The outbound call starts: the thread waits for the upstream.
Send(t) ==
    /\ pc[t] = "run"
    /\ Head(req[t].steps)[1] \in NetworkCalls
    /\ pc' = [pc EXCEPT ![t] = "net"]
    /\ last' = Done(Head(req[t].steps)[1], StepBy(t, Head(req[t].steps)[2]),
                    "send", 0, 0)
    /\ UNCHANGED <<registry, req, streak, xf, rd, task, lock, held>>

\* The outbound call ends: with the listing for requests.get, with
\* status_code for requests.post (0: requests.RequestException).
Receive(t, upstream, status_code) ==
    /\ pc[t] = "net"
    /\ LET me == req[t]
           m == Head(me.steps)[1]
           a == Head(me.steps)[2]
           rest == Tail(me.steps)
           Then(extra) == [me EXCEPT !.steps = InsertAfterRelease(rest, extra)]
           listing == fetch_models(me.provider[1], me.override, upstream)
           r == CASE m = "requests.get" ->
                       IF me.handler = "background_task"
                       THEN IF listing.models # <<>>
                            THEN [Then(Locked("update_provider_models", a, "")
                                       \o Locked("set_selected_provider", a,
                                                 "")
                                       \o Locked("get_selected_provider", "",
                                                 ""))
                                    EXCEPT !.models = listing.models,
                                           !.target = a]
                            ELSE Then(Locked("set_test_result", a, "false"))
                       ELSE IF listing.models # <<>>
                       THEN [Then(Locked("update_provider_models", a, ""))
                               EXCEPT !.models = listing.models]
                       ELSE Then(<<>>)
                  [] m = "requests.post" ->
                       [Then(after_post(me.handler, me.target, a,
                                        status_code))
                          EXCEPT !.posted = a]
                  [] OTHER -> Then(<<>>)
       IN /\ Continue(t, r)
          /\ last' = Done(m, StepBy(t, a), "receive", status_code, 0)
    /\ UNCHANGED <<registry, streak, xf, rd, task, lock, held>>

NextMutex ==
    \/ \E t \in Threads :
          \/ Spawn(t, "refresh_all_models", "")
          \/ Spawn(t, "_proxy_messages", "")
          \/ Spawn(t, "_handle_test_provider", "A")
          \/ Spawn(t, "background_task", "")
          \/ Spawn(t, "_handle_select", "B")
          \/ \E src \in {"ok", "oserror"} : Spawn(t, "_handle_reload", src)
    \/ \E t \in Threads : Acquire(t)
    \/ \E t \in Threads : Release(t)
    \/ \E t \in Threads : Access(t)
    \/ \E t \in Threads : Send(t)
    \/ \E t \in Threads :
          \E upstream \in {[kind |-> "unreachable", ids |-> <<>>],
                           [kind |-> "data", ids |-> <<"m1">>]} :
              \E status_code \in {0, 200, 500} :
                  Receive(t, upstream, status_code)

SpecMutex == InitMutex /\ [][NextMutex]_vars

\* A process started with two providers that have a base URL, the first of
\* them selected by default; no thread runs yet.
InitVerify ==
    /\ config = [Providers |-> <<ProvA, ProvS>>]
    /\ initial_config = config
    /\ file = <<>>
    /\ state = _load_state(file)
    /\ runtime_providers = _init_providers(config)
    /\ error_counts = EmptyDict
    /\ error_threshold = Get(config, "ERROR_THRESHOLD", DefaultErrorThreshold)
    /\ pc = [t \in Threads |-> "idle"]
    /\ req = [t \in Threads |-> NoThread]
    /\ last = Done("start", EmptyDict, "", 0, 0)
    /\ streak = EmptyDict
    /\ xf = NoBuild
    /\ rd = NoReader
    /\ task = NoTask
    /\ lock = 0
    /\ held = NoHold

\* The threads of the proxy, the provider tests, the discovery and the
\* control operations.
NextVerify ==
    \/ \E t \in Threads :
          \/ Spawn(t, "refresh_all_models", "")
          \/ Spawn(t, "_proxy_messages", "")
          \/ Spawn(t, "_handle_test_provider", "S")
          \/ Spawn(t, "background_task", "")
          \/ Spawn(t, "_handle_select", "S")
          \/ Spawn(t, "_handle_reload", "ok")
          \/ Spawn(t, "_handle_reset", "")
          \/ Spawn(t, "_handle_provider_auth", "A")
    \/ \E t \in Threads : Acquire(t)
    \/ \E t \in Threads : Release(t)
    \/ \E t \in Threads : Access(t)
    \/ \E t \in Threads : Send(t)
    \/ \E t \in Threads :
          \E upstream \in {[kind |-> "unreachable", ids |-> <<>>],
                           [kind |-> "data", ids |-> <<"m1">>]} :
              \E status_code \in {0, 200, 500} :
                  Receive(t, upstream, status_code)

SpecVerify == InitVerify /\ [][NextVerify]_vars

-----------------------------------------------------------------------------
(* _stream_response chunk by chunk: the loop over resp.iter_content. *)

\* The chunks an upstream body arrives in.
MaxUpstreamChunks == 2

\* b"".join(chunks)
RECURSIVE JoinChunks(_)
JoinChunks(chunks) ==
    IF chunks = <<>> THEN "" ELSE Head(chunks) \o JoinChunks(Tail(chunks))

\* A worker that relays nothing.  `raw` is what the upstream connection has
\* still to deliver and `breaks` whether it fails once that is delivered;
\* `chunk` is the loop variable; `client` is what the client's socket has
\* received.  `body`, `log` and `outcome` are history: the chunks the
\* upstream sends, the reads from the upstream connection ("read", "skip"
\* for an empty chunk, "raise"), the writes and flushes to the client
\* ("write", "flush", "fail") and the diagnostic steps ("preview", "diag") in
\* the order they happen, and how the request ended.
NoStream ==
    [provider_name |-> "", status_code |-> 0, raw |-> <<>>, breaks |-> FALSE,
     chunk |-> "", client |-> "", all_chunks |-> <<>>, total_bytes |-> 0,
     count |-> 0, body |-> <<>>, log |-> <<>>, outcome |-> ""]

\* A process whose selected provider has a base URL, with requests that
\* have been sent to the upstream.
InitStream ==
    /\ config \in {[Providers |-> <<ProvA>>, ERROR_THRESHOLD |-> 1],
                   [Providers |-> <<ProvA>>, ERROR_THRESHOLD |-> 2]}
    /\ initial_config = config
    /\ file = <<>>
    /\ state = _load_state(file)
    /\ runtime_providers = _init_providers(config)
    /\ error_counts = EmptyDict
    /\ error_threshold = Get(config, "ERROR_THRESHOLD", DefaultErrorThreshold)
    /\ pc = [w \in Threads |-> "sent"]
    /\ req = [w \in Threads |-> [NoStream EXCEPT !.provider_name = "A"]]
    /\ last = Done("start", EmptyDict, "", 0, 0)
    /\ streak = EmptyDict
    /\ xf = NoBuild
    /\ rd = NoReader
    /\ task = NoTask
    /\ lock = 0
    /\ held = NoHold

\* What `last` keeps of a step of the relay.
StreamStep(w, event) == Done("stream", [worker |-> w], event, 0, 0)

\* The response arrives: the status is classified, and for a status other
\* than 200 resp.content is read for the log before anything is written, which
\* takes the whole body off the connection; when that read fails the
\* exception is swallowed and the chunks it took are gone.  Below the
\* threshold the handler returns; else the status and the headers are
\* written.  iter_content on a response whose content was read yields the
\* stored bytes (here: in one piece); on a connection that broke under
\* resp.content it raises again or finds the connection closed and yields
\* nothing (`later`).
Respond(w, status_code, body, breaks) ==
    /\ pc[w] = "sent"
    /\ \E later \in (IF status_code = 200 THEN {breaks}
                     ELSE IF breaks THEN BOOLEAN ELSE {FALSE}) :
       LET me == req[w]
           r == stream_response(error_counts, error_threshold,
                                me.provider_name, status_code)
           text == JoinChunks(body)
           taken == [i \in 1..Len(body) |->
                        IF body[i] = "" THEN "skip" ELSE "read"]
       IN /\ error_counts' = r.counts
          /\ req' = [req EXCEPT ![w] =
                [me EXCEPT
                   !.status_code = status_code,
                   !.body = body,
                   !.count = r.count,
                   !.breaks = later,
                   !.raw = IF status_code = 200 THEN body
                           ELSE IF breaks \/ text = "" THEN <<>>
                           ELSE <<text>>,
                   !.log = IF status_code = 200 THEN <<>>
                           ELSE <<"preview">> \o taken
                                \o (IF breaks THEN <<"raise">> ELSE <<>>),
                   !.outcome = IF r.code = 0 THEN "DROPPED" ELSE ""]]
          /\ pc' = [pc EXCEPT ![w] = IF r.code = 0 THEN "done" ELSE "iter"]
          /\ last' = StreamStep(w, "respond")
    /\ UNCHANGED <<config, initial_config, state, runtime_providers,
                   error_threshold, file, streak, xf, rd, task, lock, held>>

\* for chunk in resp.iter_content(...): the next chunk, the end of the
\* body, or the exception of a connection that broke.
ReadNext(w) ==
    /\ pc[w] = "iter"
    /\ LET me == req[w]
           buffered == me.status_code # 200
       IN IF me.raw # <<>>
          THEN /\ req' = [req EXCEPT ![w] =
                    [me EXCEPT !.chunk = Head(me.raw), !.raw = Tail(me.raw),
                               !.log = IF buffered THEN @
                                       ELSE Append(@, IF Head(me.raw) = ""
                                                      THEN "skip"
                                                      ELSE "read")]]
               /\ pc' = [pc EXCEPT ![w] = IF Head(me.raw) = "" THEN "iter"
                                          ELSE "write"]
          ELSE /\ req' = [req EXCEPT ![w] =
                    [me EXCEPT !.log = IF me.breaks THEN Append(@, "raise")
                                       ELSE @,
                               !.outcome = IF me.breaks THEN "ABORTED"
                                           ELSE "DONE"]]
               /\ pc' = [pc EXCEPT ![w] = "diag"]
    /\ last' = StreamStep(w, "iter")
    /\ UNCHANGED <<registry, streak, xf, rd, task, lock, held>>

\* A loop that goes on to the next chunk when a write fails.
WriteChunk_goes_on(w, ok) ==
    /\ pc[w] = "write"
    /\ req' = [req EXCEPT ![w] =
          IF ok THEN [@ EXCEPT !.client = @ \o req[w].chunk,
                               !.log = Append(@, "write")]
          ELSE [@ EXCEPT !.log = Append(@, "fail"), !.outcome = "ABORTED"]]
    /\ pc' = [pc EXCEPT ![w] = IF ok THEN "flush" ELSE "iter"]
    /\ last' = StreamStep(w, IF ok THEN "write" ELSE "fail")
    /\ UNCHANGED <<registry, streak, xf, rd, task, lock, held>>

\* self.wfile.write(chunk): the client receives it, or the client has gone
\* and the exception ends the loop.
WriteChunk(w, ok) ==
    /\ pc[w] = "write"
    /\ req' = [req EXCEPT ![w] =
          IF ok THEN [@ EXCEPT !.client = @ \o req[w].chunk,
                               !.log = Append(@, "write")]
          ELSE [@ EXCEPT !.log = Append(@, "fail"), !.outcome = "ABORTED"]]
    /\ pc' = [pc EXCEPT ![w] = IF ok THEN "flush" ELSE "diag"]
    /\ last' = StreamStep(w, IF ok THEN "write" ELSE "fail")
    /\ UNCHANGED <<registry, streak, xf, rd, task, lock, held>>

\* self.wfile.flush(), then the two counters of the loop body.
FlushChunk(w, ok) ==
    /\ pc[w] = "flush"
    /\ req' = [req EXCEPT ![w] =
          IF ok THEN [@ EXCEPT !.total_bytes = @ + Len(req[w].chunk),
                               !.all_chunks = Append(@, req[w].chunk),
                               !.log = Append(@, "flush")]
          ELSE [@ EXCEPT !.log = Append(@, "fail"), !.outcome = "ABORTED"]]
    /\ pc' = [pc EXCEPT ![w] = IF ok THEN "iter" ELSE "diag"]
    /\ last' = StreamStep(w, IF ok THEN "flush" ELSE "fail")
    /\ UNCHANGED <<registry, streak, xf, rd, task, lock, held>>

\* The reconstruction of all_chunks for the log, inside try/except
\* Exception: pass; `fault` says whether it raised.  The handler returns.
Diagnose(w, fault) ==
    /\ pc[w] = "diag"
    /\ req' = [req EXCEPT ![w] = [@ EXCEPT !.log = Append(@, "diag")]]
    /\ pc' = [pc EXCEPT ![w] = "done"]
    /\ last' = StreamStep(w, IF fault THEN "diag raised" ELSE "diag")
    /\ UNCHANGED <<registry, streak, xf, rd, task, lock, held>>

NextStream ==
    \/ \E w \in Threads, status_code \in {200, 500}, breaks \in BOOLEAN :
          \E n \in 0..MaxUpstreamChunks :
              \E body \in [1..n -> {"", "a", "b"}] :
                  Respond(w, status_code, body, breaks)
    \/ \E w \in Threads : ReadNext(w)
    \/ \E w \in Threads, ok \in BOOLEAN : WriteChunk(w, ok)
    \/ \E w \in Threads, ok \in BOOLEAN : FlushChunk(w, ok)
    \/ \E w \in Threads, fault \in BOOLEAN : Diagnose(w, fault)

SpecStream == InitStream /\ [][NextStream]_vars

-----------------------------------------------------------------------------
(* The state file: main() constructing the registry, and save_state on a
   disk that may refuse the write. *)

\* STATE_PATH exists and cannot be read as a JSON document: open() or read()
\* fails, or json.load raises JSONDecodeError.  Such a file is kept as
\* <<document, reason>>.
Unreadable(fl) == Len(fl) = 2

\* main() has parsed the configuration and is about to construct ProxyState.
InitStartup ==
    /\ config \in {Cfg1, Cfg2}
    /\ initial_config = EmptyDict
    /\ file \in {<<>>, <<[selected_provider |-> "B"]>>,
                 <<EmptyDict, "permission denied">>,
                 <<EmptyDict, "not json">>}
    /\ state = EmptyDict
    /\ runtime_providers = <<>>
    /\ error_counts = EmptyDict
    /\ error_threshold = 0
    /\ pc = [w \in Workers |-> "idle"]
    /\ req = [w \in Workers |-> [provider_name |-> "", url |-> ""]]
    /\ last = Done("main", EmptyDict, "", 0, 0)
    /\ streak = EmptyDict
    /\ xf = NoBuild
    /\ rd = NoReader
    /\ task = NoTask
    /\ lock = 0
    /\ held = NoHold

\* ProxyState.__init__: _load_state has no exception handler, so what open()
\* or json.load raises leaves the constructor and main().
Construct ==
    /\ last.op = "main"
    /\ IF Unreadable(file)
       THEN /\ last' = Done("construct", EmptyDict, "raise", 0, 0)
            /\ UNCHANGED registry
       ELSE /\ initial_config' = config
            /\ state' = _load_state(file)
            /\ runtime_providers' = _init_providers(config)
            /\ error_counts' = EmptyDict
            /\ error_threshold' =
                   Get(config, "ERROR_THRESHOLD", DefaultErrorThreshold)
            /\ last' = Done("construct", EmptyDict, "return", 0, 0)
            /\ UNCHANGED <<config, file>>
    /\ UNCHANGED <<pc, req, streak, xf, rd, task, lock, held>>

\* One registry mutation with its save_state: `written` says whether the
\* open and the write of STATE_PATH succeed; an OSError is caught and
\* logged, and the file is left as it was.
Persist(op, name, written) ==
    /\ last.op # "main"
    /\ last.ret # "raise"
    /\ LET sel == set_selected_provider(state, runtime_providers, name)
           rel == reload_config([kind |-> "ok", doc |-> Cfg4], config, state,
                                runtime_providers)
           res == reset_config(initial_config, state)
           r == CASE op = "select" ->
                       [config |-> config,
                        runtime_providers |-> runtime_providers,
                        state |-> sel.state, saved |-> sel.saved,
                        ret |-> IF sel.ok THEN "true" ELSE "false"]
                  [] op = "reload" ->
                       [config |-> rel.config,
                        runtime_providers |-> rel.runtime_providers,
                        state |-> rel.state, saved |-> rel.saved,
                        ret |-> "return"]
                  [] op = "reset" ->
                       [config |-> res.config,
                        runtime_providers |-> res.runtime_providers,
                        state |-> res.state, saved |-> res.saved,
                        ret |-> "return"]
                  [] op = "setOverride" ->
                       [config |-> config,
                        runtime_providers |-> runtime_providers,
                        state |-> set_provider_override(state, name, OvHeader),
                        saved |-> TRUE, ret |-> "return"]
       IN /\ config' = r.config
          /\ runtime_providers' = r.runtime_providers
          /\ state' = r.state
          /\ file' = IF r.saved /\ written THEN save_state(r.state) ELSE file
          /\ last' = Done(op, [name |-> name, saved |-> r.saved,
                               written |-> written], r.ret, 0, 0)
    /\ UNCHANGED <<initial_config, error_counts, error_threshold, pc, req,
                   streak, xf, rd, task, lock, held>>

NextStartup ==
    \/ Construct
    \/ \E op \in {"select", "reload", "reset", "setOverride"},
          name \in ProviderNames, written \in BOOLEAN :
              Persist(op, name, written)

SpecStartup == InitStartup /\ [][NextStartup]_vars

-----------------------------------------------------------------------------
(* The error threshold across reload and reset. *)

\* Proxied requests to provider A, with reloads of a configuration that
\* has another ERROR_THRESHOLD, and resets.
NextThreshold ==
    \/ HandleSelect("A")
    \/ \E doc \in {Cfg2, [Providers |-> <<ProvA>>, ERROR_THRESHOLD |-> 1]} :
          HandleReload([kind |-> "ok", doc |-> doc])
    \/ HandleReset
    \/ \E w \in Workers, r \in ClientRequests : ProxyDispatch(w, r)
    \/ \E w \in Workers, status_code \in {200, 500} :
          UpstreamAnswer(w, status_code)

SpecThreshold == InitRelay /\ [][NextThreshold]_vars

-----------------------------------------------------------------------------
(* The request of model discovery: fetch_models applied to drawn inputs. *)

\* str.rstrip("/").
RECURSIVE rstrip(_)
rstrip(s) ==
    IF s # "" /\ SubSeq(s, Len(s), Len(s)) = "/"
    THEN rstrip(SubSeq(s, 1, Len(s) - 1)) ELSE s

extract_base_url(api_base_url) ==
    IF Contains(api_base_url, "/anthropic/v1/messages")
    THEN Replace(api_base_url, "/anthropic/v1/messages", "")
    ELSE IF Contains(api_base_url, "/v1/chat/completions")
    THEN Replace(api_base_url, "/v1/chat/completions", "")
    ELSE IF Contains(api_base_url, "/v1/messages")
    THEN Replace(api_base_url, "/v1/messages", "")
    ELSE rstrip(api_base_url)

\* The URL and the headers fetch_models hands to requests.get.
fetch_models_request(provider, token_param, override) ==
    LET base_url == extract_base_url(Get(provider, "api_base_url", ""))
        token == provider_token(provider)
        mode == Lower(OrElse(Get(override, "token_in", ""),
                             Get(provider, "token_in", "header")))
        url == base_url \o "/v1/models"
        header_name ==
            OrElse(Get(override, "token_header", ""),
                   Get(provider, "token_header", "Authorization"))
        header_format ==
            OrElse(Get(override, "token_header_format", ""),
                   Get(provider, "token_header_format", "Bearer {token}"))
    IN [url |-> IF mode \in {"query", "both"}
                THEN append_token(url, token, token_param) ELSE url,
        headers |-> IF token # "" /\ mode \in {"header", "both"}
                    THEN Put(EmptyDict, header_name,
                             Format(header_format, token))
                    ELSE EmptyDict]

\* A process started with no state file, holding the provider and the
\* override of one call of fetch_models.
InitListing ==
    LET ListingProviders ==
            {ProvA, ProvB, ProvBad,
             [name |-> "G", api_base_url |-> "https://g.test/v1/messages",
              token |-> "tok", token_in |-> "header",
              token_header |-> "X-Goog-Api-Key",
              token_header_format |-> "{token}"],
             [name |-> "P", api_base_url |-> "https://p.test/anthropic/v1/messages",
              api_key |-> "abc", token_in |-> "query", token_param |-> "pk"],
             [name |-> "T", api_base_url |-> "https://t.test/api/",
              token |-> "tok", token_in |-> "Both"],
             [name |-> "N", api_base_url |-> "https://n.test/v1/chat/completions"]}
    IN
    LET ListingOverrides ==
            {EmptyDict, OvHeader, OvQuery,
             [token_in |-> "both", token_header |-> "X-Auth"],
             [token_in |-> "Query"],
             [token_header_format |-> "Key {token}"]}
    IN
    /\ config \in {Cfg1, [Providers |-> <<ProvA>>, TOKEN_PARAM |-> "tp"]}
    /\ initial_config = config
    /\ file = <<>>
    /\ state = _load_state(file)
    /\ runtime_providers = _init_providers(config)
    /\ error_counts = EmptyDict
    /\ error_threshold = Get(config, "ERROR_THRESHOLD", DefaultErrorThreshold)
    /\ pc = [w \in Workers |-> "idle"]
    /\ req = [w \in Workers |-> [provider_name |-> "", url |-> ""]]
    /\ last = Done("start", EmptyDict, "", 0, 0)
    /\ streak = EmptyDict
    /\ xf \in {[NoBuild EXCEPT !.provider = <<provider>>,
                               !.override = override] :
                  provider \in ListingProviders, override \in ListingOverrides}
    /\ rd = NoReader
    /\ task = NoTask
    /\ lock = 0
    /\ held = NoHold

\* fetch_models(provider, token_param, timeout, override) up to requests.get,
\* with the token_param refresh_all_models and the background task pass.
Discover ==
    /\ last.op = "start"
    /\ LET provider == xf.provider[1]
           token_param == get_config(config, "TOKEN_PARAM", "token")
           probe == fetch_models(provider, xf.override,
                                 [kind |-> "unreachable", ids |-> <<>>])
           sent == fetch_models_request(provider, token_param, xf.override)
       IN /\ xf' = IF probe.raised \/ probe.error = "missing api_base_url"
                   THEN xf
                   ELSE [xf EXCEPT !.url = sent.url,
                                   !.headers = sent.headers,
                                   !.built = TRUE]
          /\ last' = Done("fetch_models", EmptyDict,
                          IF probe.raised THEN "raise"
                          ELSE IF xf'.built THEN "requests.get"
                          ELSE "return", 0, 0)
    /\ UNCHANGED <<registry, pc, req, streak, rd, task, lock, held>>

SpecListing == InitListing /\ [][Discover]_vars

-----------------------------------------------------------------------------
(* The properties. *)

StoredName == Get(state, "selected_provider", "")

Required == Get(state, "selection_required", FALSE)

InList(provs, name) == \E i \in 1..Len(provs) : provs[i].name = name

\* The upstream answered the proxied request that `last` records.
Answered == last.op = "proxy" /\ last.up # 0

\* C1: when the upstream answers a provider's requests with non-2xx statuses,
\* starting from a counter of 0, the k-th answer in a row is dropped (nothing
\* is written to the client) for k < T and relayed with the upstream's status
\* for k >= T.
C1_ErrorThresholdPolicy ==
    (Answered /\ last.up \notin 200..299
       /\ Get(streak, last.input.provider, NoStreak).clean)
    => LET k == Get(streak, last.input.provider, NoStreak).n
       IN IF k < error_threshold
          THEN last.ret = "dropped" /\ last.code = 0
          ELSE last.ret = "relayed" /\ last.code = last.up

\* C1 witness: threshold 3, the third 500 in a row is relayed as 500.
C1_Witness ==
    /\ Answered /\ last.up = 500 /\ last.code = 500
    /\ error_threshold = 3
    /\ Get(streak, last.input.provider, NoStreak) = [n |-> 3, clean |-> TRUE]

\* C2: every upstream answer with a status in 200..299 resets the provider's
\* counter to zero and is forwarded; only a status outside 200..299
\* increments the counter.
C2_TwoXXResets ==
    [][(last'.op = "proxy" /\ last'.up # 0)
       => LET name == last'.input.provider
          IN IF last'.up \in 200..299
             THEN /\ Get(error_counts', name, 0) = 0
                  /\ last'.code = last'.up
             ELSE Get(error_counts', name, 0)
                      = Get(error_counts, name, 0) + 1]_vars

\* C3: select(name) with a name that is not in the list returns false and
\* leaves the selection state and the state file as they are; with a name in
\* the list it returns true, stores the name, clears selection_required and
\* persists the selection state.
C3_SelectContract ==
    [][last'.op = "select"
       => LET name == last'.input.name
          IN IF InList(runtime_providers, name)
             THEN /\ last'.ret = "true"
                  /\ Get(state', "selected_provider", "") = name
                  /\ ~Get(state', "selection_required", FALSE)
                  /\ Get(state', "global_override", EmptyDict)
                         = Get(state, "global_override", EmptyDict)
                  /\ file' = <<state'>>
             ELSE /\ last'.ret = "false"
                  /\ state' = state
                  /\ file' = file]_vars

\* C3 witness: a select that succeeded and cleared a set selection_required.
C3_Witness ==
    /\ last.op = "select" /\ last.ret = "true"
    /\ "selection_required" \in DOMAIN state /\ ~state.selection_required
    /\ file = <<state>>

\* C4: selected() is none whenever selection_required is set; otherwise it is
\* the provider with the stored name if the list has one, else the first
\* provider of the list, else none when the list is empty.
C4_SelectedProvider ==
    LET sel == get_selected_provider(state, runtime_providers)
        named == {i \in 1..Len(runtime_providers) :
                     runtime_providers[i].name = StoredName}
    IN /\ Required => sel = <<>>
       /\ (~Required /\ named # {})
              => sel = <<runtime_providers[MinOf(named)]>>
       /\ (~Required /\ named = {} /\ runtime_providers # <<>>)
              => sel = <<runtime_providers[1]>>
       /\ (~Required /\ runtime_providers = <<>>) => sel = <<>>

\* C4 witness: after reset and reload a name of the list is stored while
\* selection_required is set.
C4_Witness ==
    /\ last.op = "reload" /\ Required
    /\ InList(runtime_providers, StoredName)

C6_ReloadFailure ==
    [][(last'.op = "reload" /\ last'.input.kind \in {"oserror", "malformed"})
       => /\ UNCHANGED <<config, runtime_providers, state, error_counts, file>>
          /\ last'.ret = "return"]_vars

\* C7: after reset() the provider list is that of the configuration captured
\* at process start, selection_required is true, the stored name and the
\* shared override are empty, and the state file holds this selection state.
C7_Reset ==
    last.op = "reset"
    => /\ runtime_providers = Get(initial_config, "Providers", <<>>)
       /\ Get(state, "selection_required", FALSE) = TRUE
       /\ Get(state, "selected_provider", "?") = ""
       /\ Get(state, "global_override", [x |-> "?"]) = EmptyDict
       /\ file = <<state>>

\* C7 witness: a reset has run in a process that started with Cfg1.
C7_Witness ==
    /\ last.op = "reset" /\ initial_config = Cfg1
    /\ runtime_providers = <<ProvA, ProvB>> /\ config = Cfg1
    /\ Required /\ file = <<state>>

\* The step is _proxy_messages reading a client request (it ends with a
\* response, an exception, or the request in flight).
Dispatched == last'.op \in {"proxy", "dispatch"} /\ "client" \in DOMAIN last'.input

\* The credential of the request read by the step differs from a configured
\* client API key.
BadCredential ==
    /\ Get(config, "APIKEY", "") # ""
    /\ _extract_client_token(last'.input.client.headers,
                             last'.input.client.query)
           # Get(config, "APIKEY", "")

\* C8: POST /v1/messages is answered with 503 when selected() is none, else
\* with 401 when a client API key is configured and the request's credential
\* differs from it, else with 502 when the selected provider has no base URL
\* or the outbound call fails before an upstream response; none of these
\* changes an error counter.  (The three cases are read in the order given,
\* which is the order _proxy_messages tests them in.)
C8_ProxyErrorStatuses ==
    [][/\ Dispatched
          => LET sel == get_selected_provider(state, runtime_providers)
             IN /\ sel = <<>>
                     => last'.code = 503 /\ error_counts' = error_counts
                /\ (sel # <<>> /\ BadCredential)
                     => last'.code = 401 /\ error_counts' = error_counts
                /\ (sel # <<>> /\ ~BadCredential
                      /\ Get(sel[1], "api_base_url", "") = "")
                     => last'.code = 502 /\ error_counts' = error_counts
       /\ (last'.op = "proxy" /\ last'.up = 0
             /\ "client" \notin DOMAIN last'.input)
          => last'.code = 502 /\ error_counts' = error_counts]_vars

\* C9: a POST /v1/messages whose credential does not match the configured
\* client API key puts no request in flight to a provider, changes nothing
\* in the registry and is answered once, without a retry.
C9_UnauthorizedNoEffect ==
    [][(Dispatched /\ BadCredential)
       => /\ UNCHANGED <<config, initial_config, state, runtime_providers,
                         error_counts, error_threshold, file>>
          /\ pc' = pc /\ req' = req
          /\ last'.op = "proxy" /\ last'.ret = "return"
          /\ last'.code \in {401, 503}]_vars

\* C9 witness: a request with a wrong bearer token was answered 401.
C9_Witness ==
    /\ last.op = "proxy" /\ last.code = 401
    /\ Get(config, "APIKEY", "") = "ckey"
    /\ last.input.client.headers = [Authorization |-> "Bearer wrong"]

\* The effective auth header name and value of override mode.
EffectiveHeaderName ==
    OrElse(Get(xf.override, "token_header", ""),
           Get(xf.provider[1], "token_header", "Authorization"))

EffectiveHeaderValue ==
    Format(OrElse(Get(xf.override, "token_header_format", ""),
                  Get(xf.provider[1], "token_header_format", "Bearer {token}")),
           provider_token(xf.provider[1]))

\* C10: in override mode with token_in header or both, the outbound headers
\* hold exactly one header whose name equals the effective auth header name
\* case-insensitively, its value is the format template with the provider
\* token substituted, and no authorization, x-api-key or anthropic-auth-token
\* header of the client is left.
C10_OneAuthHeader ==
    (xf.built /\ last.op = "transform"
       /\ token_in(xf.provider[1], xf.override) \in {"header", "both"})
    => LET at == {k \in DOMAIN xf.headers :
                     Lower(k) = Lower(EffectiveHeaderName)}
       IN /\ Cardinality(at) = 1
          /\ \A k \in at : xf.headers[k] = EffectiveHeaderValue
          /\ \A k \in DOMAIN xf.headers :
                 Lower(k) \in AUTH_HEADERS => k \in at

-----------------------------------------------------------------------------
(* The transformer: hop-by-hop headers, pass-through and query placement. *)

\* A request object has been transformed.
Transformed == xf.built /\ last.op = "transform"

Mode == token_in(xf.provider[1], xf.override)

\* The hop-by-hop header names, lowercased.
HopNames ==
    {"connection", "keep-alive", "proxy-authenticate", "proxy-authorization",
     "te", "trailers", "transfer-encoding", "upgrade", "host",
     "content-length", "accept-encoding"}

\* C11: in both modes, and after a named header-override set has been
\* applied, no outbound header has a lowercased name among the hop-by-hop
\* names.
C11_NoHopHeaders ==
    Transformed => \A k \in DOMAIN xf.headers : Lower(k) \notin HopNames

\* The header-override set that applies to the request, empty when none does.
AppliedSet ==
    LET n == OrElse(Get(xf.override, "header_override", ""),
                    Get(xf.provider[1], "header_override", ""))
    IN IF n = "" THEN EmptyDict
       ELSE Get(Get(config, "HeaderOverrides", EmptyDict), n, EmptyDict)

\* A header that the application of a header-override set removes.
RemovedBySet(k) ==
    /\ DOMAIN AppliedSet # {}
    /\ \/ \E o \in DOMAIN AppliedSet : Lower(o) = Lower(k)
       \/ Lower(k) \in {"http-referer", "referer", "x-title", "origin",
                        "priority"}
       \/ StartsWith(Lower(k), "sec-ch-")
       \/ StartsWith(Lower(k), "sec-fetch-")

\* What pass-through makes of a client value.
PassValue(v) ==
    IF Get(config, "APIKEY", "") # "" /\ Contains(v, Get(config, "APIKEY", ""))
    THEN provider_token(xf.provider[1]) ELSE v

\* The outbound query pairs of pass-through: those of the base URL, then the
\* client's with their values passed through.
PassQuery ==
    LET cp == parse_qsl(xf.client.query)
    IN parse_qsl(UrlQuery(Get(xf.provider[1], "api_base_url", "")))
       \o [i \in 1..Len(cp) |-> <<cp[i][1], PassValue(cp[i][2])>>]

\* C12 as stated: in pass-through every client header that is not hop-by-hop
\* and every client query pair reaches the upstream, its value replaced by
\* the provider token when it contains the client API key and unchanged
\* otherwise.
C12_Passthrough ==
    (Transformed /\ Mode = "")
    => /\ \A k \in DOMAIN xf.client.headers :
             Lower(k) \notin HopNames
             => /\ k \in DOMAIN xf.headers
                /\ xf.headers[k] = PassValue(xf.client.headers[k])
       /\ parse_qsl(UrlQuery(xf.url)) = PassQuery

\* C12 amended: the same for the query and for every header that the
\* application of a header-override set does not remove; a removed header
\* is outbound only if the set has this very name, with the set's value.
C12_PassthroughAmended ==
    (Transformed /\ Mode = "")
    => /\ \A k \in DOMAIN xf.client.headers :
             Lower(k) \notin HopNames
             => IF RemovedBySet(k)
                THEN /\ k \in DOMAIN xf.headers <=> k \in DOMAIN AppliedSet
                     /\ k \in DOMAIN xf.headers
                            => xf.headers[k] = AppliedSet[k]
                ELSE /\ k \in DOMAIN xf.headers
                     /\ xf.headers[k] = PassValue(xf.client.headers[k])
       /\ parse_qsl(UrlQuery(xf.url)) = PassQuery

\* C12 witness: a pass-through build replaced an Authorization header and a
\* query value that contain the client API key, and kept another pair.
C12_Witness ==
    /\ Transformed /\ Mode = "" /\ xf.provider = <<ProvA>>
    /\ config = Cfg1 /\ xf.client.query = "Token=xckeyx&a=b"
    /\ "Authorization" \in DOMAIN xf.client.headers
    /\ "User-Agent" \in DOMAIN xf.client.headers
    /\ xf.headers["Authorization"] = "tok"
    /\ xf.headers["User-Agent"] = "curl/8"
    /\ xf.url = "https://a.test/v1/messages?Token=tok&a=b"

\* The name of the query parameter that carries the token.
EffectiveTokenParam ==
    OrElse(Get(xf.override, "token_param", ""),
        OrElse(Get(xf.provider[1], "token_param", ""),
               Get(config, "TOKEN_PARAM", "token")))

\* The outbound pairs of override mode before the token pair: the base
\* URL's, the client's without the auth parameters, the override's.
PlacedQuery ==
    parse_qsl(UrlQuery(Get(xf.provider[1], "api_base_url", "")))
    \o SelectSeq(parse_qsl(xf.client.query),
                 LAMBDA kv : Lower(kv[1]) \notin
                                 {"token", "key", "api_key", "apikey"})
    \o parse_qsl(Get(xf.override, "query_params", ""))

\* C13 as stated: in override mode with token_in query or both the outbound
\* query is the base URL's pairs, the client's pairs without the auth
\* parameters, the override's query_params and then the pair (param, token).
C13_QueryPlacement ==
    (Transformed /\ Mode \in {"query", "both"})
    => parse_qsl(UrlQuery(xf.url))
         = PlacedQuery
           \o <<<<EffectiveTokenParam, provider_token(xf.provider[1])>>>>

\* C13 amended: the pair (param, token) ends the query when the provider has
\* a token; without a token no pair is appended.
C13_QueryPlacementAmended ==
    (Transformed /\ Mode \in {"query", "both"})
    => parse_qsl(UrlQuery(xf.url))
         = PlacedQuery
           \o (IF provider_token(xf.provider[1]) = "" THEN <<>>
               ELSE <<<<EffectiveTokenParam,
                        provider_token(xf.provider[1])>>>>)

\* C13 witness: override {token_in: query, token_param: key}, token abc and
\* client query foo=1 gave the query foo=1&key=abc.
C13_Witness ==
    /\ Transformed /\ xf.provider = <<ProvS>> /\ xf.override = OvQuery
    /\ xf.client.query = "foo=1"
    /\ UrlQuery(xf.url) = "foo=1&key=abc"

-----------------------------------------------------------------------------
(* The body transform. *)

\* An injection map is configured: the override names a set that the
\* configuration has, or gives an inline map.
InjectConfigured ==
    \/ /\ Get(xf.override, "request_override", "") # ""
       /\ Get(xf.override, "request_override", "")
              \in DOMAIN Get(config, "RequestOverrides", EmptyDict)
    \/ "request_inject" \in DOMAIN xf.override

\* C14: the outbound body is the client's body, byte for byte, when no
\* injection map is configured or the body is not a JSON object; the build
\* returns in every case.
C14_BodyNoOp ==
    last.op = "body"
    => /\ last.ret = "return"
       /\ (~InjectConfigured \/ json_loads(xf.client_body).kind # "object")
              => xf.body = xf.client_body

\* C14 witness: with an injection map configured, a body that is a JSON list
\* went out unchanged.
C14_Witness ==
    /\ last.op = "body" /\ InjectConfigured
    /\ xf.client_body = "[\"system\"]" /\ xf.body = xf.client_body

-----------------------------------------------------------------------------
(* The chunked reader. *)

\* C16: the decoding of a chunked body ends without raising, on the
\* zero-length chunk, at the end of input or at a length line that is not
\* hexadecimal, and the decoded body is then the concatenation of the
\* payloads of the chunks before it, in order.
C16_ChunkedDecode ==
    /\ rd.pc # "raised"
    /\ rd.pc = "done" => rd.body = rd.sent

-----------------------------------------------------------------------------
(* Discovery. *)

\* C17: fetch never raises; it returns a non-empty list of non-empty model
\* identifiers and no error, or no list and a reason.
C17_FetchNeverRaises ==
    last.op = "fetch"
    => /\ last.ret = "return"
       /\ \/ /\ last.input.models # <<>>
             /\ \A i \in 1..Len(last.input.models) : last.input.models[i] # ""
             /\ last.input.error = ""
          \/ last.input.models = <<>> /\ last.input.error # ""

\* C18: when the refresh-and-test task ends and no select, reload or reset
\* ran meanwhile, selected() and selection_required are what they were when
\* the task started.
C18_RefreshRestoresSelection ==
    (last.op = "refreshDone" /\ ~task.disturbed)
    => /\ Get(state, "selection_required", FALSE) = task.before.required
       /\ LET now == get_selected_provider(state, runtime_providers)
          IN IF task.before.selected = <<>> THEN now = <<>>
             ELSE now # <<>>
                  /\ NameOf(now[1]) = NameOf(task.before.selected[1])

-----------------------------------------------------------------------------
(* Concurrent requests. *)

\* C19: under every interleaving of concurrent requests the counter of a
\* provider is the number of its non-200 answers since the last reset, each
\* increment returns this number, and an answer is dropped only when the
\* number returned is below the threshold.
C19_AtomicCounters ==
    /\ \A p \in DOMAIN error_counts \cup DOMAIN streak :
           Get(error_counts, p, 0) = Get(streak, p, NoStreak).n
    /\ (Answered /\ last.up # 200)
           => /\ last.input.count = Get(streak, last.input.provider, NoStreak).n
              /\ last.ret = "dropped" <=> last.input.count < error_threshold

\* C19 witness: with threshold 3 the third failing answer in a row was
\* relayed while another request to the provider was still in flight.
C19_Witness ==
    /\ Answered /\ last.up = 500 /\ last.input.count = 3
    /\ error_threshold = 3 /\ last.ret = "relayed"
    /\ \E w \in DOMAIN pc : pc[w] = "sent"

\* C20: a request in flight keeps the provider and URL it was dispatched
\* with through every select, reload and reset; its answer is counted under
\* that provider and changes no other counter; a dispatch uses the provider
\* that selected() returns at that moment.
C20_CapturedProvider ==
    [][\A w \in DOMAIN pc :
          /\ (pc[w] = "sent" /\ pc'[w] = "sent") => req'[w] = req[w]
          /\ (pc[w] = "sent" /\ pc'[w] = "idle" /\ last'.up # 0)
                => /\ last'.input.provider = req[w].provider_name
                   /\ \A p \in DOMAIN error_counts \cup DOMAIN error_counts' :
                          p # req[w].provider_name
                          => Get(error_counts', p, 0) = Get(error_counts, p, 0)
          /\ (pc[w] = "idle" /\ pc'[w] = "sent")
                => LET sel == get_selected_provider(state, runtime_providers)
                   IN /\ sel # <<>>
                      /\ req'[w].provider_name = NameOf(sel[1])
                      /\ xf'.provider = sel
                      /\ req'[w].url = xf'.url
                      /\ StartsWith(req'[w].url,
                                    UrlBase(Get(sel[1], "api_base_url", "")))
      ]_vars

\* C20 witness: the answer to a request dispatched to A was counted under A
\* after B had been selected.
C20_Witness ==
    /\ Answered /\ last.up = 500 /\ last.input.provider = "A"
    /\ StoredName = "B" /\ ~Required
    /\ Get(error_counts, "A", 0) = 1 /\ "B" \notin DOMAIN error_counts

-----------------------------------------------------------------------------
(* C23: updateModels(name, models) and setTestResult(name, flag) change only
   the named field ("models", "test_result") of the profile whose name
   matches: the list keeps its length and order, every other profile and
   every other field of the matching profile stay as they were, and so do the
   selection state, the override, the persisted document, the configuration
   and the counters.  When no profile has that name the list is unchanged
   and the call returns. *)
C23_FieldUpdateFrame ==
    [][last'.op \in {"updateModels", "setTestResult"}
       => LET name == last'.input.name
              field == IF last'.op = "updateModels" THEN "models"
                       ELSE "test_result"
              old == runtime_providers
              new == runtime_providers'
          IN /\ last'.ret = "return"
             /\ UNCHANGED <<config, initial_config, state, error_counts,
                            error_threshold, file>>
             /\ Len(new) = Len(old)
             /\ \A i \in 1..Len(old) :
                   /\ NameOf(old[i]) # name => new[i] = old[i]
                   /\ DOMAIN old[i] \subseteq DOMAIN new[i]
                   /\ DOMAIN new[i] \subseteq DOMAIN old[i] \cup {field}
                   /\ \A k \in DOMAIN old[i] \ {field} : new[i][k] = old[i][k]
             /\ ~HasProvider(old, name) => new = old]_vars

\* A test result was stored for B in a list whose other profile carries a
\* discovered models list, and a call for a name that is not in the list
\* returned.
C23_Witness ==
    /\ last.op \in {"updateModels", "setTestResult"}
    /\ last.input.name = "Z"
    /\ ~HasProvider(runtime_providers, "Z")
    /\ \E i, j \in 1..Len(runtime_providers) :
          /\ NameOf(runtime_providers[i]) = "B"
          /\ "test_result" \in DOMAIN runtime_providers[i]
          /\ NameOf(runtime_providers[j]) = "A"
          /\ "models" \in DOMAIN runtime_providers[j]

-----------------------------------------------------------------------------
(* C22: every step that changes the stored selected provider, the
   selection_required flag or the shared override (select, a reload that
   re-derives the selection, reset, setOverride, and the selections of the
   refresh-and-test task) leaves the persisted state document equal to the
   in-memory selection state; each of these steps changes the state and
   writes the document inside one critical section, so the last document
   written is that of the last change. *)
C22_PersistedState ==
    [][state' # state => file' = <<state'>>]_vars

\* The task has selected a provider after a reset, a setOverride and a
\* reload that re-derived the selection, and the document holds all of it.
C22_Witness ==
    /\ last.op = "refreshSelect"
    /\ config = Cfg4
    /\ file = <<state>>
    /\ Get(state, "selected_provider", "") = "B"
    /\ Get(state, "selection_required", TRUE) = FALSE
    /\ Get(state, "global_override", EmptyDict) = OvHeader

-----------------------------------------------------------------------------
(* C30: when the selected provider's profile names a request_override set of
   the configuration, or carries an inline request_inject map, and the
   shared override names none, the outbound body of a request whose body is
   a JSON object is the one built with the provider's map. *)
C30_ProviderInjection ==
    LET p == xf.provider[1]
        named == Get(p, "request_override", "")
        sets == get_request_overrides(config)
        map == IF named # "" /\ named \in DOMAIN sets THEN sets[named]
               ELSE Get(p, "request_inject", <<>>)
    IN (/\ last.op = "body"
        /\ "request_override" \notin DOMAIN xf.override
        /\ "request_inject" \notin DOMAIN xf.override
        /\ map # <<>>
        /\ json_loads(xf.client_body).kind = "object")
       => xf.body = json_dumps(Ordered(json_loads(xf.client_body).fields, map))

-----------------------------------------------------------------------------
(* C26: when refreshAll has ended, fetch_models was called for every
   provider of its list except one named "Note"; a pass whose discovery
   failed or was empty left every models list as it was, and the passes
   after it were made. *)
C26_RefreshAllContinues ==
    (last.op = "refreshAll" /\ task.pc \in {"idle", "dead"})
    => /\ last.ret = "return"
       /\ \A i \in 1..Len(task.providers) :
             NameOf(task.providers[i]) # "Note" <=> i \in task.probed

-----------------------------------------------------------------------------
\* The credential of a request in the words of the specification: the first
\* non-empty value in the lookup order.
FirstCredential(r) ==
    LET auth == HeaderLookup(r.headers, "authorization")
        values ==
            <<Strip(HeaderLookup(r.headers, "x-api-key")),
              IF StartsWith(Lower(auth), "bearer ")
              THEN Strip(SubSeq(auth, 8, Len(auth))) ELSE "",
              Strip(HeaderLookup(r.headers, "anthropic-auth-token")),
              Strip(QueryFirst(r.query, "token")),
              Strip(QueryFirst(r.query, "key")),
              Strip(QueryFirst(r.query, "api_key"))>>
        present == {i \in 1..6 : values[i] # ""}
    IN IF present = {} THEN "" ELSE values[MinOf(present)]

(* C24: the credential of a request is the first non-empty value among the
   x-api-key header, the token of an "Authorization: Bearer" header, the
   anthropic-auth-token header and the query parameters token, key and
   api_key, in that order; the request is authorized iff no client API key
   is configured or that value equals the key. *)
C24_CredentialLookup ==
    LET credential == FirstCredential(xf.client)
        expected == client_apikey(config)
    IN last.op = "authorize"
       => /\ last.input.token = credential
          /\ last.ret = "true" <=> (expected = "" \/ credential = expected)

-----------------------------------------------------------------------------
(* The control plane. *)

\* The request carries the key: as its credential, or as the password of an
\* HTTP Basic authorization, whatever the user name.
CarriesKey(r, key) ==
    LET auth == HeaderLookup(r.headers, "authorization")
        decoded == b64decode(SubSeq(auth, 7, Len(auth)))
    IN \/ FirstCredential(r) = key
       \/ /\ StartsWith(Lower(auth), "basic ") /\ decoded # <<>>
          /\ \E i \in 1..Len(decoded[1]) :
                /\ SubSeq(decoded[1], i, i) = ":"
                /\ SubSeq(decoded[1], i + 1, Len(decoded[1])) = key

(* C25: with a client API key configured, a request to a control-plane
   path that carries the key neither as its credential nor as a Basic
   password is answered 401 and changes nothing: no registry field, no
   task, no request in flight; and every step of a control-plane handler
   (the registry read-out, the registry changes, the discovery and test
   calls, the start of the background task) belongs to a request that was
   admitted and, if a key was configured, carried it. *)
C25_ControlPlaneGate ==
    [][LET key == client_apikey(config)
       IN /\ (last'.op = "control" /\ key # ""
                /\ ~CarriesKey(last'.input.client, key))
             => /\ last'.code = 401 /\ last'.ret = "return"
                /\ UNCHANGED <<registry, pc, req, task>>
          /\ last'.op \in {"state", "select", "updateModels", "reload",
                           "reset", "provider-auth", "setTestResult",
                           "refreshStart"}
             => /\ last.op = "control" /\ last.ret = "admitted"
                /\ key = "" \/ CarriesKey(last.input.client, key)]_vars

\* After the registry was changed, a POST /api/reset whose Basic password is
\* wrong was answered 401.
C25_Witness ==
    /\ last.op = "control" /\ last.code = 401
    /\ last.input.path = "/api/reset"
    /\ HeaderLookup(last.input.client.headers, "authorization")
           = "Basic Y2tleTp1"
    /\ "global_override" \in DOMAIN state

-----------------------------------------------------------------------------
(* The outcomes of a proxied request that passed the selection and the
   authorization check, read from the record of the step that ends it. *)

\* What the client was sent is the upstream's status and its headers minus
\* the hop-by-hop set, and the body ended as `body` says.
Forwarded(body) ==
    /\ last'.up # 0 /\ last'.ret = "relayed" /\ last'.code = last'.up
    /\ last'.input.headers
           = [k \in {x \in DOMAIN UpstreamHeaders(last'.up) :
                        Lower(x) \notin HOP_HEADERS} |->
                 UpstreamHeaders(last'.up)[k]]
    /\ last'.input.body = body

\* The outcomes that hold of the step, among those named in `names`.
Outcomes(names) ==
    {o \in names :
        CASE o = "DONE" -> Forwarded("whole")
          [] o = "ABORTED" -> Forwarded("cut")
          [] o = "DROPPED" -> last'.code = 0 /\ last'.ret \in {"dropped", "raise"}
          [] o = "FAILED" ->
                 last'.code = 502 /\ last'.ret = "return" /\ last'.up = 0}

\* The step called increment_error_count or reset_error_count once for the
\* request's provider, and changed no other counter.
CountedOnce ==
    LET name == last'.input.provider
    IN \/ error_counts'
            = Put(error_counts, name, Get(error_counts, name, 0) + 1)
       \/ error_counts' = Put(error_counts, name, 0)

(* C27: each proxied request that passes the selection and authorization
   checks ends in exactly one of DONE (status, headers minus the hop-by-hop
   set and the body were sent), DROPPED (nothing was written) and FAILED (a
   502 was sent); the provider's counter is updated at most once, and only
   in DONE and DROPPED. *)
C27_TerminalOutcomes ==
    [][(last'.op = "proxy" /\ last'.code \notin {401, 503})
       => /\ Cardinality(Outcomes({"DONE", "DROPPED", "FAILED"})) = 1
          /\ error_counts' # error_counts
                => /\ Outcomes({"DONE", "DROPPED"}) # {}
                   /\ CountedOnce]_vars

(* C27 as the code has it: there is a fourth outcome, ABORTED: the status
   and the headers were sent and the body was cut short, because the
   upstream's stream broke or the client had gone.  Each such request ends
   in exactly one of the four; the counter is updated at most once, and
   only in DONE, DROPPED and ABORTED. *)
C27_TerminalOutcomesAmended ==
    [][(last'.op = "proxy" /\ last'.code \notin {401, 503})
       => /\ Cardinality(Outcomes({"DONE", "DROPPED", "FAILED", "ABORTED"})) = 1
          /\ error_counts' # error_counts
                => /\ Outcomes({"DONE", "DROPPED", "ABORTED"}) # {}
                   /\ CountedOnce
          /\ last'.code = 502 => error_counts' = error_counts]_vars

\* The third failing answer in a row was relayed as 500 without the hop
\* headers and its body was cut short.
C27_Witness ==
    /\ Answered /\ last.up = 500 /\ last.code = 500
    /\ last.input.count = 3 /\ last.input.body = "cut"
    /\ DOMAIN last.input.headers = {"content-type", "Retry-After"}

-----------------------------------------------------------------------------
(* C21: the list that listProviders() returned and the profile that
   selected() returned are snapshots: what their holder sees (the list, and
   the fields of its profiles, models and test_result among them) stays what
   it was at the call, whatever updateModels, setTestResult, reload and
   reset do afterwards. *)
C21_Snapshots ==
    /\ held.list = held.was.list
    /\ held.was.selected
           = IF held.at = 0 THEN <<>> ELSE <<held.list[held.at]>>

(* C28: no thread holds the registry mutex while one of its outbound calls
   (requests.get of fetch_models, requests.post of _forward_to_upstream, the
   reading of the response body) is in progress: the call starts and ends
   with the mutex not held by the caller, and what the call yields is stored
   by a method that holds the mutex. *)
C28_NoLockAcrossNetwork ==
    /\ \A t \in DOMAIN pc : pc[t] = "net" => lock # t
    /\ last.op \in NetworkCalls => ~last.input.locked
    /\ last.op \in {"update_provider_models", "set_test_result",
                    "increment_error_count", "reset_error_count"}
           => last.input.locked

\* A reload by another thread has just completed under the mutex while a
\* thread waits for its upstream.
C28_Witness ==
    /\ last.op = "set_providers"
    /\ last.input.locked
    /\ \E t \in DOMAIN pc : pc[t] = "net" /\ t # last.input.thread

(* C29: every read and every write of a registry field that another thread
   can change (_runtime_providers, _state, _error_counts, _config) is made
   by a thread that holds the registry mutex. *)
C29_FieldsUnderLock ==
    last.op \in {"get_providers", "get_selected_provider",
                 "set_selected_provider", "update_provider_models",
                 "set_test_result", "get_provider_override",
                 "increment_error_count", "reset_error_count", "set_config",
                 "set_providers", "get_config", "get_header_overrides",
                 "get_request_overrides"}
        => last.input.locked

\* The name of the header-override set the request asks for, "" for none.
SetName ==
    OrElse(Get(xf.override, "header_override", ""),
           Get(xf.provider[1], "header_override", ""))

\* A header of the browser family that a header override strips.
BrowserFamily(k) ==
    \/ Lower(k) \in {"referer", "origin", "priority"}
    \/ StartsWith(Lower(k), "sec-ch-")
    \/ StartsWith(Lower(k), "sec-fetch-")

(* C31: when the effective header_override name names a configured set, the
   outbound headers hold every entry of the set with its configured value,
   no other header whose lowercased name is that of a set entry, and no
   referer, origin, priority, sec-ch-* or sec-fetch-* header of the client;
   when the name names no configured set, the outbound headers are those
   computed without a header override. *)
C31_HeaderOverride ==
    Transformed =>
        LET sets == Get(config, "HeaderOverrides", EmptyDict)
        IN IF SetName \in DOMAIN sets
           THEN /\ \A o \in DOMAIN sets[SetName] :
                      /\ o \in DOMAIN xf.headers
                      /\ xf.headers[o] = sets[SetName][o]
                /\ \A k \in DOMAIN xf.headers \ DOMAIN sets[SetName] :
                      /\ \A o \in DOMAIN sets[SetName] : Lower(o) # Lower(k)
                      /\ ~BrowserFamily(k)
           ELSE xf.headers = BaseHeaders(xf.provider[1], xf.override,
                                         xf.client.headers, config)

-----------------------------------------------------------------------------
(* The relay of the body. *)

\* Whether the log holds the event.
Logged(w, event) == \E i \in 1..Len(req[w].log) : req[w].log[i] = event

\* The loop of worker w is over.
Streamed(w) == pc[w] \in {"diag", "done"} /\ req[w].outcome # "DROPPED"

(* C32: on the DONE path every non-empty chunk read from the upstream is
   written to the client and flushed before the next chunk is read, and the
   client has received exactly the concatenation of the upstream's chunks,
   in their order. *)
C32_BodyPreserved ==
    \A w \in DOMAIN pc :
        Streamed(w) /\ req[w].outcome = "DONE" =>
            /\ req[w].client = JoinChunks(req[w].body)
            /\ \A i \in 1..Len(req[w].log) :
                  req[w].log[i] = "read" =>
                      /\ i + 2 <= Len(req[w].log)
                      /\ req[w].log[i + 1] = "write"
                      /\ req[w].log[i + 2] = "flush"

(* C33: once a write or a flush to the client has failed, the relay reads no
   further chunk from the upstream and writes nothing more to the client, the
   handler goes on to its return, and its remaining steps change neither the
   registry (the error counter keeps the value of the classification) nor
   another request in flight. *)
C33_ClientDisconnect ==
    /\ [](\A w \in DOMAIN pc :
             Logged(w, "fail") =>
                 /\ pc[w] \in {"diag", "done"}
                 /\ req[w].log[Len(req[w].log)] \in {"fail", "diag"})
    /\ [][\A w \in DOMAIN pc :
             Logged(w, "fail") /\ <<pc[w], req[w]>>' # <<pc[w], req[w]>> =>
                 /\ pc'[w] = "done"
                 /\ req'[w].client = req[w].client
                 /\ req'[w].raw = req[w].raw
                 /\ req'[w].outcome = "ABORTED"
                 /\ UNCHANGED registry
                 /\ \A v \in DOMAIN pc \ {w} :
                       UNCHANGED <<pc[v], req[v]>>]_vars

\* The client of one request has gone after it received a chunk, the
\* handler has returned, and another request is being relayed.
C33_Witness ==
    \E w, v \in DOMAIN pc :
        /\ w # v
        /\ Logged(w, "fail") /\ Logged(w, "flush") /\ pc[w] = "done"
        /\ req[w].client # JoinChunks(req[w].body)
        /\ pc[v] = "flush" /\ req[v].client # ""

(* C34: the diagnostic reading of a response starts only after the last
   chunk has been forwarded, so that nothing is written to the client after
   a diagnostic step has begun, and what happens in it does not change what
   the client receives: unless the client has gone, a relayed response
   brings the client every chunk the upstream delivered. *)
C34_DiagnosticSideChannel ==
    \A w \in DOMAIN pc :
        /\ \A i, j \in 1..Len(req[w].log) :
              req[w].log[i] \in {"preview", "diag"} /\ i < j
                  => req[w].log[j] # "write"
        /\ Streamed(w) /\ ~Logged(w, "fail")
              => req[w].client = JoinChunks(req[w].body)

-----------------------------------------------------------------------------
(* The state file. *)

(* C35: a save_state that fails during select, reload, reset or setOverride
   leaves the change applied in memory and the operation returns as it does
   when the write succeeds; a state file that cannot be read or parsed does
   not prevent the construction of the registry, which then starts with an
   empty selection state. *)
C35_StateFileNeverFatal ==
    /\ [](last.op = "construct" =>
             /\ last.ret = "return"
             /\ Unreadable(file) => state = EmptyDict)
    /\ [][last'.op \in {"select", "reload", "reset", "setOverride"}
             /\ last'.input.saved /\ ~last'.input.written =>
                 /\ last'.ret # "raise"
                 /\ file' = file
                 /\ last'.op = "select" =>
                       /\ last'.ret = "true"
                       /\ Get(state', "selected_provider", "")
                              = last'.input.name
                 /\ last'.op = "reset" =>
                       Get(state', "selection_required", FALSE)
                 /\ last'.op = "setOverride" =>
                       Get(state', "global_override", EmptyDict) = OvHeader
                 /\ last'.op = "reload" =>
                       runtime_providers' = _init_providers(Cfg4)]_vars

-----------------------------------------------------------------------------
(* The error threshold. *)

(* C36: the drop/relay decision on an upstream answer other than 200 uses
   the ERROR_THRESHOLD of the configuration that is loaded: the one read by
   the last successful reload, after a reset the one captured at process
   start. *)
C36_ThresholdFollowsConfig ==
    last.op = "proxy" /\ last.up \notin {0, 200} =>
        (last.ret = "dropped"
            <=> last.input.count
                    < Get(config, "ERROR_THRESHOLD", DefaultErrorThreshold))

-----------------------------------------------------------------------------
(* The credential of the discovery request. *)

\* The effective token_in of discovery: the override's, else the
\* provider's, else header.
DiscoveryMode ==
    Lower(OrElse(Get(xf.override, "token_in", ""),
                 OrElse(Get(xf.provider[1], "token_in", ""), "header")))

(* C37: the discovery request places the provider's credential by the
   effective token_in (override, else provider, else header): with query or
   both the models URL carries the token under the parameter named by the
   override's token_param, else the provider's, else the global default;
   with header or both the one header is named and formatted by the
   override, else the provider, else "Authorization: Bearer <token>". *)
C37_DiscoveryCredential ==
    (last.op = "fetch_models" /\ xf.built
        /\ provider_token(xf.provider[1]) # "") =>
        LET provider == xf.provider[1]
            token == provider_token(provider)
            header_name ==
                OrElse(Get(xf.override, "token_header", ""),
                       OrElse(Get(provider, "token_header", ""),
                              "Authorization"))
            header_format ==
                OrElse(Get(xf.override, "token_header_format", ""),
                       OrElse(Get(provider, "token_header_format", ""),
                              "Bearer {token}"))
        IN /\ UrlBase(xf.url)
                  = extract_base_url(provider.api_base_url) \o "/v1/models"
           /\ parse_qsl(UrlQuery(xf.url))
                  = IF DiscoveryMode \in {"query", "both"}
                    THEN <<<<EffectiveTokenParam, token>>>> ELSE <<>>
           /\ xf.headers
                  = IF DiscoveryMode \in {"header", "both"}
                    THEN Put(EmptyDict, header_name,
                             Format(header_format, token))
                    ELSE EmptyDict

-----------------------------------------------------------------------------
(* The error counters, the selection and the test results under threads. *)

(* C38: the error counters change only in increment_error_count and
   reset_error_count called for a proxied POST /v1/messages, and a thread
   gets there exactly when its requests.post was answered by the upstream
   and it is the proxy handler: select, reload, reset, the override, the
   model lists, the test results, discovery, the provider tests and a proxied
   request whose upstream is unreachable leave every counter as it is. *)
C38_CountersFrame ==
    [][/\ error_counts' # error_counts =>
              /\ last'.op \in {"increment_error_count", "reset_error_count"}
              /\ req[last'.input.thread].handler = "_proxy_messages"
       /\ last'.op = "requests.post" /\ last'.ret = "receive" =>
              LET t == last'.input.thread
              IN (\E i \in 1..Len(req'[t].steps) :
                      req'[t].steps[i][1] \in {"increment_error_count",
                                               "reset_error_count"})
                 <=> (req[t].handler = "_proxy_messages" /\ last'.code # 0)
      ]_vars

\* A reload or a reset has run while provider A had a count.
C38_Witness ==
    /\ last.op \in {"set_providers", "reset_config"}
    /\ Get(error_counts, "A", 0) > 0

\* The name of an optional provider, "" for none.
NameOrNone(opt) == IF opt = <<>> THEN "" ELSE NameOf(opt[1])

(* C39: while the refresh-and-test thread runs, a proxied request that reads
   the selected provider gets the provider that was selected when the
   thread started (none if none was). *)
C39_TrafficKeepsSelection ==
    \A t1 \in Threads, t2 \in Threads :
        (/\ req[t1].handler = "background_task"
         /\ pc[t1] \in {"run", "net"}
         /\ req[t1].original_selected # <<>>
         /\ last.op = "get_selected_provider"
         /\ last.input.thread = t2
         /\ req[t2].handler = "_proxy_messages")
        => NameOrNone(req[t2].provider)
               = NameOrNone(req[t1].original_selected[1])

(* C40: when a test result is stored for provider N after a completion
   request, that request was sent to provider N. *)
C40_TestOwnProvider ==
    (/\ last.op = "set_test_result"
     /\ req[last.input.thread].posted # "")
    => req[last.input.thread].posted = last.input.arg

=============================================================================
